---- MODULE Spec2Model ----
(***************************************************************************)
(* Model of the K-Online scraper:                                          *)
(*   utils/validators.py       clean_company_name, validate_domain,        *)
(*                             validate_company_data,                      *)
(*                             normalize_phone_number                      *)
(*   scraper/domain_generator  generate_domain_variants,                   *)
(*                             generate_full_domains, process_companies,   *)
(*                             get_domain_statistics                       *)
(*   scraper/k_online_scraper  _parse_company_from_element, the listing    *)
(*                             locator of _scrape_page_with_requests,      *)
(*                             scrape_companies                            *)
(*                                                                         *)
(* A Python str is modelled as a sequence of one-character strings, so     *)
(* that the regular expressions and the str methods of the source are      *)
(* computed character by character, the way the interpreter does.          *)
(***************************************************************************)
EXTENDS Integers, Sequences, FiniteSets, TLC

VARIABLES
    name,          \* clean_company_name: the argument
    slug,          \* clean_company_name(name)
    reslug,        \* clean_company_name(slug)
    npc,           \* "new" -> "cleaned" -> "twice"
    company_name,  \* generate_full_domains: the argument
    config,        \* DomainGenerator.config
    pc,            \* "call" -> "loop" -> "done"
    base_name,     \* generate_domain_variants: the local base_name
    variants,      \* the list generate_domain_variants returned
    vi,            \* index of the outer loop (for variant in variants)
    ti,            \* index of the inner loop (for tld in tlds)
    domains,       \* the list `domains` being built
    probes,        \* the calls made to check_domain_availability, in order
    element,       \* _parse_company_from_element: the listing element
    source_url,    \* _parse_company_from_element: the argument (<<>> is None)
    email_ok,      \* what validators.email answers for the element's email
    url_ok,        \* what validators.url answers for the element's link
    company_data,  \* the dict company_data being filled
    ppc,           \* "name" -> "check" -> "fields" -> "validate" -> "returned"
    result,        \* what _parse_company_from_element returned
    via,           \* which page scraper runs: "requests" or "selenium"
    page,          \* the nodes of the page parsed by BeautifulSoup
    si,            \* index of the loop over company_selectors
    tried,         \* the selectors handed to soup.select, in order
    company_elements, \* the list company_elements (positions in page)
    lpc,           \* "select" -> "process"
    max_pages,     \* scrape_companies: the argument (<<>> is None)
    urls_to_scrape, \* the list urls_to_scrape
    pi,            \* index i of the loop over urls_to_scrape
    all_companies, \* the list all_companies
    outcomes,      \* what the scraping of each page did, in order
    events,        \* the requests sent and the sleeps made, in order
    spc,           \* "discover" -> "loop" -> "done"
    companies,     \* process_companies: the argument, a list of dicts
    input,         \* the argument as it was when process_companies was called
    ci,            \* index of the loop over companies
    results,       \* the list results
    stats,         \* what get_domain_statistics(results) returned
    qpc,           \* "next" -> "generate" -> "next" ... -> "done"
    phone,         \* normalize_phone_number: the argument
    normalized,    \* normalize_phone_number(phone)
    hpc,           \* "new" -> "done"
    dns_timeout,   \* config['timeout_dns_check'] of each builder
    default_timeout, \* the process-wide socket default timeout (<<>> is None)
    todo,          \* the domains each builder has still to probe
    tpc,           \* each builder: "call" -> "lookup" -> "call"
    used,          \* the timeout in force at each lookup of each builder
    statuses,      \* the statuses each builder got, in order
    retries,       \* _make_request: the argument (<<>> is None)
    configured,    \* self.config['retry_attempts']
    attempts,      \* the resolved number of attempts (the local retries)
    attempt,       \* the loop variable of _make_request
    gets,          \* what each session.get did, in order
    naps,          \* the number of time.sleep calls between attempts
    mpc,           \* "call" -> "loop" -> "returned" or "raised"
    response,      \* what _make_request returned (<<>> is None)
    driver,        \* KOnlineScraper.driver (<<>> is None)
    quits,         \* what each driver.quit() did, in order
    session_closes, \* the number of session.close() calls
    closes,        \* the number of close() calls that returned
    kpc,           \* "ready" -> "quit" -> "clear" -> "session" -> "closed"
    generate_domains, \* the --generate-domains flag
    scraper,       \* the local scraper of the scrape command (<<>> is unbound)
    scraped_count, \* len(companies) after scrape_companies
    processed_count, \* the companies the domain loop has processed
    path,          \* how the try statement was left
    scraper_closes, \* the number of scraper.close() calls
    cpc,           \* "create" -> "test" -> "scrape" -> ... -> "finally" -> "exited"
    base_url,      \* _discover_pagination_urls: the argument
    anchors,       \* the <a> elements of the directory page, in document order
    urls,          \* the list urls
    dpc            \* "request" -> "links" -> "next" -> "returned"

cleanVars == <<name, slug, reslug, npc>>
buildVars == <<company_name, config, pc, base_name, variants, vi, ti, domains, probes>>
parseVars == <<element, source_url, email_ok, url_ok, company_data, ppc, result>>
locateVars == <<via, page, si, tried, company_elements, lpc>>
scrapeVars == <<max_pages, urls_to_scrape, pi, all_companies, outcomes, events, spc>>
processVars == <<companies, input, ci, results, stats, qpc>>
phoneVars == <<phone, normalized, hpc>>
probeVars == <<dns_timeout, default_timeout, todo, tpc, used, statuses>>
requestVars == <<retries, configured, attempts, attempt, gets, naps, mpc, response>>
closeVars == <<driver, quits, session_closes, closes, kpc>>
cliVars == <<generate_domains, scraper, scraped_count, processed_count, path,
      scraper_closes, cpc>>
discoverVars == <<base_url, anchors, urls, dpc>>
vars == <<cleanVars, buildVars, parseVars, locateVars, scrapeVars,
      processVars, phoneVars, probeVars, requestVars, closeVars, cliVars,
      discoverVars>>

----------------------------------------------------------------------------
(* Bounds of the model *)

\* longest company name enumerated over NameAlphabet
MaxNameLen == 3
\* largest max_variants_per_company tried with the availability check on or off
MaxK == 2
\* largest number of nodes of a page handed to the listing locator
MaxPageLen == 3
\* largest number of pages the pagination discovery returns
MaxPages == 3
\* largest number of records scraped from one page
MaxRecordsPerPage == 2
\* longest list of companies handed to process_companies
MaxCompanies == 2
\* longest phone text enumerated over PhoneAlphabet
MaxPhoneLen == 3
\* largest number of domains one builder probes
MaxProbes == 1

----------------------------------------------------------------------------
(* Characters *)

UpperChars == <<"A","B","C","D","E","F","G","H","I","J","K","L","M",
                "N","O","P","Q","R","S","T","U","V","W","X","Y","Z",
                "Ä","Ö","Ü","Á">>
LowerChars == <<"a","b","c","d","e","f","g","h","i","j","k","l","m",
                "n","o","p","q","r","s","t","u","v","w","x","y","z",
                "ä","ö","ü","á">>
Digits == {"0","1","2","3","4","5","6","7","8","9"}
OtherLetters == {"ß","à","â","ã","é","è","ê","ë","í","ì","î","ï",
                 "ó","ò","ô","õ","ú","ù","û","ñ","ç"}

Range(s) == {s[i] : i \in 1..Len(s)}

\* str.lower() on one character
Lower(c) ==
    IF \E i \in 1..Len(UpperChars) : UpperChars[i] = c
    THEN LowerChars[CHOOSE i \in 1..Len(UpperChars) : UpperChars[i] = c]
    ELSE c

\* the regex class \w (Unicode): letters, digits and the underscore
IsWord(c) ==
    \/ c \in Range(UpperChars) \cup Range(LowerChars)
    \/ c \in Digits \cup OtherLetters
    \/ c = "_"

\* the regex class \s
IsSpace(c) == c \in {" ", "\t", "\n"}

IsWordAt(s, p) == p >= 1 /\ p <= Len(s) /\ IsWord(s[p])

\* the regex assertion \b between positions p and p+1 of s
Boundary(s, p) == IsWordAt(s, p) # IsWordAt(s, p + 1)

----------------------------------------------------------------------------
(* clean_company_name *)

legal_suffixes == <<
    <<"G","m","b","H">>, <<"A","G">>, <<"K","G">>, <<"O","H","G">>,
    <<"e",".","V",".">>, <<"e",".","K",".">>, <<"U","G">>,
    <<"L","t","d",".">>, <<"I","n","c",".">>, <<"C","o","r","p",".">>,
    <<"L","L","C">>, <<"C","o",".">>, <<"&"," ","C","o",".">>,
    <<"m","b","H">>, <<"g","G","m","b","H">> >>

\* rf'\b{re.escape(suffix)}\b' with re.IGNORECASE matches s at position i
MatchAt(s, pat, i) ==
    /\ i + Len(pat) - 1 <= Len(s)
    /\ \A j \in 1..Len(pat) : Lower(s[i + j - 1]) = Lower(pat[j])
    /\ Boundary(s, i - 1)
    /\ Boundary(s, i + Len(pat) - 1)

RECURSIVE SubFrom(_, _, _)
SubFrom(s, pat, i) ==
    IF i > Len(s) THEN <<>>
    ELSE IF MatchAt(s, pat, i) THEN SubFrom(s, pat, i + Len(pat))
    ELSE <<s[i]>> \o SubFrom(s, pat, i + 1)

\* re.sub(rf'\b{re.escape(suffix)}\b', '', s, flags=re.IGNORECASE)
RemoveSuffix(s, pat) == SubFrom(s, pat, 1)

\* The element of a one-element set.  An assignment `cleaned = f(cleaned)` is
\* written Only({g(x) : x \in {f(cleaned)}}): x is bound to the value of
\* f(cleaned), which is computed once, before g uses it.
Only(S) == CHOOSE x \in S : TRUE

RECURSIVE StripSuffixesFrom(_, _)
StripSuffixesFrom(s, j) ==
    IF j > Len(legal_suffixes) THEN s
    ELSE Only({StripSuffixesFrom(cleaned, j + 1) :
                 cleaned \in {RemoveSuffix(s, legal_suffixes[j])}})

\* for suffix in legal_suffixes: cleaned = re.sub(...)
StripSuffixes(s) == StripSuffixesFrom(s, 1)

KeepChar(c) == IsWord(c) \/ IsSpace(c) \/ c = "-"

\* re.sub(r'[^\w\s-]', '', s)
RemoveSpecial(s) == SelectSeq(s, KeepChar)

RECURSIVE LStrip(_, _)
LStrip(s, drop) ==
    IF s # <<>> /\ s[1] \in drop THEN LStrip(Tail(s), drop) ELSE s

RECURSIVE RStrip(_, _)
RStrip(s, drop) ==
    IF s # <<>> /\ s[Len(s)] \in drop
    THEN RStrip(SubSeq(s, 1, Len(s) - 1), drop) ELSE s

\* str.strip(): without argument whitespace, with '-' the hyphens
StripChars(s, drop) == RStrip(LStrip(s, drop), drop)

\* re.sub(<run of characters of cls>, '-', s)
RECURSIVE RunsToHyphen(_, _)
RunsToHyphen(s, cls) ==
    IF s = <<>> THEN <<>>
    ELSE IF s[1] \in cls
         THEN <<"-">> \o RunsToHyphen(LStrip(s, cls), cls)
         ELSE <<s[1]>> \o RunsToHyphen(Tail(s), cls)

LowerStr(s) == [i \in 1..Len(s) |-> Lower(s[i])]

\* the dict display `replacements`, entry by entry as it is written
replacements == <<
    <<"ä", <<"a","e">> >>, <<"ö", <<"o","e">> >>,
    <<"ü", <<"u","e">> >>, <<"ß", <<"s","s">> >>,
    <<"á", <<"a">> >>, <<"à", <<"a">> >>, <<"â", <<"a">> >>, <<"ã", <<"a">> >>,
    <<"é", <<"e">> >>, <<"è", <<"e">> >>, <<"ê", <<"e">> >>, <<"ë", <<"e">> >>,
    <<"í", <<"i">> >>, <<"ì", <<"i">> >>, <<"î", <<"i">> >>, <<"ï", <<"i">> >>,
    <<"ó", <<"o">> >>, <<"ò", <<"o">> >>, <<"ô", <<"o">> >>, <<"õ", <<"o">> >>,
    <<"ú", <<"u">> >>, <<"ù", <<"u">> >>, <<"û", <<"u">> >>, <<"ü", <<"u">> >>,
    <<"ñ", <<"n">> >>, <<"ç", <<"c">> >> >>

\* A dict display evaluates its entries left to right: a key written twice
\* keeps the position of its first entry and the value of its last one.
DictValue(entries, key) ==
    entries[CHOOSE i \in 1..Len(entries) :
                /\ entries[i][1] = key
                /\ \A j \in (i + 1)..Len(entries) : entries[j][1] # key][2]

\* dict.items(): one pair per key, in the order of first insertion
DictItems(entries) ==
    LET first == SelectSeq([i \in 1..Len(entries) |-> i],
                           LAMBDA i : \A j \in 1..(i - 1) :
                                          entries[j][1] # entries[i][1])
    IN  [n \in 1..Len(first) |->
            <<entries[first[n]][1], DictValue(entries, entries[first[n]][1])>>]

\* str.replace(char, replacement) for a one-character `char`
RECURSIVE ReplaceChar(_, _, _)
ReplaceChar(s, char, replacement) ==
    IF s = <<>> THEN <<>>
    ELSE (IF s[1] = char THEN replacement ELSE <<s[1]>>)
         \o ReplaceChar(Tail(s), char, replacement)

RECURSIVE FoldFrom(_, _, _)
FoldFrom(s, items, n) ==
    IF n > Len(items) THEN s
    ELSE Only({FoldFrom(cleaned, items, n + 1) :
                 cleaned \in {ReplaceChar(s, items[n][1], items[n][2])}})

\* for char, replacement in replacements.items(): cleaned = cleaned.replace(...)
FoldAccents(s) == FoldFrom(s, DictItems(replacements), 1)

Whitespace == {" ", "\t", "\n"}

clean_company_name(n) ==
    IF n = <<>> THEN <<>>
    ELSE Only({StripChars(collapsed, {"-"}) :
           collapsed \in {RunsToHyphen(folded, {"-"}) :
             folded \in {FoldAccents(lowered) :
               lowered \in {LowerStr(hyphened) :
                 hyphened \in {RunsToHyphen(StripChars(special, Whitespace),
                                            Whitespace) :
                   special \in {RemoveSpecial(stripped) :
                     stripped \in {StripSuffixes(n)}}}}}}})

----------------------------------------------------------------------------
(* generate_domain_variants *)

\* str.split(sep) for a one-character separator
RECURSIVE Split(_, _)
Split(s, sep) ==
    IF sep \notin Range(s) THEN <<s>>
    ELSE LET i == CHOOSE p \in 1..Len(s) :
                      s[p] = sep /\ \A q \in 1..(p - 1) : s[q] # sep
         IN  <<SubSeq(s, 1, i - 1)>> \o Split(SubSeq(s, i + 1, Len(s)), sep)

\* sep.join(words)
RECURSIVE Join(_, _)
Join(words, sep) ==
    IF words = <<>> THEN <<>>
    ELSE IF Len(words) = 1 THEN words[1]
    ELSE words[1] \o <<sep>> \o Join(Tail(words), sep)

IsNonEmpty(w) == w # <<>>

common_words == {
    <<"g","m","b","h">>, <<"a","g">>, <<"k","g">>, <<"o","h","g">>,
    <<"e","v">>, <<"e","k">>, <<"u","g">>, <<"l","t","d">>, <<"i","n","c">>,
    <<"c","o","r","p">>, <<"l","l","c">>, <<"c","o">>,
    <<"c","o","m","p","a","n","y">>, <<"s","y","s","t","e","m","s">>,
    <<"s","o","l","u","t","i","o","n","s">>, <<"s","e","r","v","i","c","e","s">>,
    <<"i","n","t","e","r","n","a","t","i","o","n","a","l">>,
    <<"g","r","o","u","p">>, <<"h","o","l","d","i","n","g">>,
    <<"c","o","n","s","u","l","t","i","n","g">>,
    <<"e","n","g","i","n","e","e","r","i","n","g">>,
    <<"t","e","c","h","n","o","l","o","g","y">>, <<"t","e","c","h">>,
    <<"s","o","f","t","w","a","r","e">>, <<"d","i","g","i","t","a","l">>,
    <<"a","n","d">>, <<"u","n","d">>, <<"t","h","e">>,
    <<"d","e","r">>, <<"d","i","e">>, <<"d","a","s">> }

IsNotCommon(w) == LowerStr(w) \notin common_words

_create_short_variant(n) ==
    LET words == SelectSeq(Split(n, "-"), IsNotCommon)
    IN  IF words # <<>> THEN Join(words, "-") ELSE n

\* set.add: the variants in the order in which they first enter the set
SetAdd(lst, x) == IF x \in Range(lst) THEN lst ELSE Append(lst, x)

NumberSuffixes == << <<"2","4">>, <<"3","6","5">>, <<"2","0","2","4">> >>

\* The body of generate_domain_variants between `variants = set()` and the
\* return, for base_name = base: the elements added to the set, listed in
\* insertion order.
InsertionOrder(base, k) ==
    LET v1 == SetAdd(<<>>, base)
        no_hyphens == SelectSeq(base, LAMBDA c : c # "-")
        v2 == IF no_hyphens # <<>> /\ no_hyphens # base
              THEN SetAdd(v1, no_hyphens) ELSE v1
        words == SelectSeq(Split(base, "-"), IsNonEmpty)
        abbreviation == [i \in 1..Len(words) |-> words[i][1]]
        v3 == IF Len(words) > 1 /\ Len(abbreviation) >= 2
              THEN SetAdd(v2, abbreviation) ELSE v2
        short_variant == _create_short_variant(base)
        v4 == IF short_variant # <<>> /\ short_variant # base
              THEN SetAdd(v3, short_variant) ELSE v3
    IN  IF Len(v4) < k
        THEN SetAdd(SetAdd(SetAdd(v4, base \o NumberSuffixes[1]),
                           base \o NumberSuffixes[2]),
                    base \o NumberSuffixes[3])
        ELSE v4

\* every order in which the elements of S can be listed
RECURSIVE Orderings(_)
Orderings(S) ==
    IF S = {} THEN {<<>>}
    ELSE UNION {{<<x>> \o p : p \in Orderings(S \ {x})} : x \in S}

\* list(variants): a set of str iterates in the order of the hash table, and
\* str hashes are salted per interpreter start, so any order can come out.
ListOfSet(S) == Orderings(S)

Min(a, b) == IF a <= b THEN a ELSE b
Max(a, b) == IF a >= b THEN a ELSE b

\* lst[:k] forgotten: the whole list is returned
SliceNothing(lst, k) == lst

\* lst[:k]
Slice(lst, k) ==
    IF k >= 0 THEN SubSeq(lst, 1, Min(k, Len(lst)))
    ELSE SubSeq(lst, 1, Max(0, Len(lst) + k))

\* generate_domain_variants without its two early returns
generate_domain_variants_unguarded(n, k) ==
    {Slice(lst, k) :
       lst \in ListOfSet(Range(InsertionOrder(clean_company_name(n), k)))}

\* the lists a call generate_domain_variants(company_name) can return when
\* config['max_variants_per_company'] is k
generate_domain_variants(n, k) ==
    IF n = <<>> THEN {<<>>}
    ELSE LET base == clean_company_name(n)
         IN  IF base = <<>> THEN {<<>>}
             ELSE {Slice(lst, k) :
                     lst \in ListOfSet(Range(InsertionOrder(base, k)))}

----------------------------------------------------------------------------
(* validate_domain, check_domain_availability *)

AsciiLetters == {LowerChars[i] : i \in 1..26} \cup {UpperChars[i] : i \in 1..26}
AlphaNum == AsciiLetters \cup Digits

\* a label before the last one: letters, digits and inner hyphens, at most 63
HostLabel(l) ==
    /\ Len(l) >= 1 /\ Len(l) <= 63
    /\ l[1] \in AlphaNum /\ l[Len(l)] \in AlphaNum
    /\ \A i \in 1..Len(l) : l[i] \in AlphaNum \cup {"-"}

\* the last label: at least two characters, ending in a letter
TldLabel(l) ==
    /\ Len(l) >= 2 /\ Len(l) <= 63
    /\ l[1] \in AlphaNum /\ l[Len(l)] \in AsciiLetters
    /\ \A i \in 1..Len(l) : l[i] \in AlphaNum \cup {"-", "_"}

\* validators.domain(domain) is truthy: the syntax the library accepts for an
\* ASCII name (every domain of this model is ASCII after FoldAccents); a
\* ValidationFailure is falsy and an exception is turned into False.
validate_domain(d) ==
    LET labels == Split(d, ".")
    IN  /\ Len(labels) >= 2
        /\ \A i \in 1..(Len(labels) - 1) : HostLabel(labels[i])
        /\ TldLabel(labels[Len(labels)])

\* what socket.gethostbyname does: it returns an address, raises
\* socket.gaierror, or raises something else (socket.timeout, OSError, ...)
LookupOutcomes == {"resolved", "gaierror", "exception"}

\* check_domain_availability whose last clause reads
\* `except Exception: return 'available'`
check_domain_availability_lenient(d, lookup) ==
    IF ~validate_domain(d) THEN [raises |-> FALSE, value |-> "error"]
    ELSE IF lookup = "resolved" THEN [raises |-> FALSE, value |-> "taken"]
    ELSE [raises |-> FALSE, value |-> "available"]

\* check_domain_availability(domain, timeout) when the lookup ends as `lookup`:
\* the value returned, or the exception that leaves the call
check_domain_availability(d, lookup) ==
    IF ~validate_domain(d) THEN [raises |-> FALSE, value |-> "error"]
    ELSE IF lookup = "resolved" THEN [raises |-> FALSE, value |-> "taken"]
    ELSE IF lookup = "gaierror" THEN [raises |-> FALSE, value |-> "available"]
    ELSE [raises |-> FALSE, value |-> "error"]

----------------------------------------------------------------------------
(* generate_full_domains *)

\* the probe's result is dropped: domain_info keeps its initial status
StatusAfterProbeDropped(r) == "unknown"

\* try: domain_info['status'] = check_domain_availability(...)
\* except Exception: domain_info['status'] = 'error'
StatusAfterProbe(r) == IF r.raises THEN "error" ELSE r.value

\* the validation is skipped: every domain goes on
PassesValidationAlways(d) == TRUE

\* if not validate_domain(domain): continue
PassesValidation(d) == validate_domain(d)

\* domains.insert(0, domain_info) in place of append
ListPrepend(lst, x) == <<x>> \o lst

\* domains.append(domain_info)
ListAppend(lst, x) == Append(lst, x)

\* the (variant, tld) pair the loops visit after pair (v, t), with nt tlds
NextPair(v, t, nt) == IF t < nt THEN <<v, t + 1>> ELSE <<v + 1, 1>>

\* domain_info as it is appended to `domains`
DomainInfo(variant, tld, status) ==
    [domain |-> variant \o tld, variant |-> variant, tld |-> tld, status |-> status]

----------------------------------------------------------------------------
(* Inputs *)

NameAlphabet == {"a", "G", "ü", ".", " ", "-", "_"}

SeqsUpTo(S, n) == UNION {[1..m -> S] : m \in 0..n}

\* names given to clean_company_name
CleanNames ==
    SeqsUpTo(NameAlphabet, MaxNameLen) \cup {
        <<"M","ü","l","l","e","r"," ","&"," ","C","o","."," ","K","G">>,
        <<"M","u","s","t","e","r","m","a","n","n"," ","G","m","b","H">>,
        <<"A",".","G">>,
        <<"Á","G"," ","x">>,
        <<"T","e","c","h"," ","S","o","l","u","t","i","o","n","s"," ","L","t","d",".">>,
        <<"F","o","o"," ","C","o",".","B","a","r">>,
        <<"F","o","o","&"," ","C","o",".","x">>,
        <<"ä">>,
        <<"ö">>,
        <<"ß">>,
        <<"S","t","r","a","ß","e">>,
        <<"Ö","l"," ","A","G">>,
        <<"x"," ","e",".","V",".","y">>,
        <<"a","\t","b">> }

\* names given to generate_full_domains
BuildNames == {
    <<>>,
    <<" ">>,
    <<"G","m","b","H">>,
    <<"a","b">>,
    <<"a"," ","b">>,
    <<"a","b"," ","c","d">>,
    <<"t","e","c","h"," ","x">>,
    <<"a","_"," ","b","_">>,
    <<"_","a">>,
    <<"M","u","s","t","e","r","m","a","n","n"," ","G","m","b","H">> }

\* config.get('tlds', ['.de', '.com'])
DefaultTlds == << <<".","d","e">>, <<".","c","o","m">> >>

\* DOMAIN_CONFIG["max_variants_per_company"], also the default of config.get
DefaultMaxVariants == 5

\* DOMAIN_CONFIG as shipped (no availability check), and every smaller cap
\* with the availability check off and on
Configs ==
    {[tlds |-> DefaultTlds, max_variants_per_company |-> DefaultMaxVariants,
      check_availability |-> FALSE]}
    \cup {[tlds |-> DefaultTlds, max_variants_per_company |-> k,
           check_availability |-> c] : k \in 0..MaxK, c \in BOOLEAN}

----------------------------------------------------------------------------
(* Python dicts with str keys: functions from the set of keys; Optional    *)
(* values: the empty sequence for None, a one-element sequence otherwise   *)

EmptyDict == [k \in {} |-> <<>>]

DictGet(d, k, default) == IF k \in DOMAIN d THEN d[k] ELSE default

DictPut(d, k, v) == [x \in DOMAIN d \cup {k} |-> IF x = k THEN v ELSE d[x]]

\* d.update(e)
DictUpdate(d, e) ==
    [x \in DOMAIN d \cup DOMAIN e |-> IF x \in DOMAIN e THEN e[x] ELSE d[x]]

IsNone(opt) == opt = <<>>

----------------------------------------------------------------------------
(* utils/validators.py: validate_company_data *)

fields_mapping == {"address", "city", "country", "postal_code", "phone",
                   "email", "website", "description", "industry",
                   "booth_number", "contact_person"}

\* validate_email and validate_url hand the value to the validators
\* library and return its verdict; the verdict is an input of the model
validate_email(value, verdict) == verdict
validate_url(value, verdict) == verdict

\* the fields of company_data that the loop over fields_mapping copies
KeptFields(data, eok, uok) ==
    {f \in fields_mapping :
        /\ DictGet(data, f, <<>>) # <<>>
        /\ ~(f = "email" /\ ~validate_email(data[f], eok))
        /\ ~(f = "website" /\ ~validate_url(data[f], uok))}

\* raises ValueError when the trimmed name is empty, otherwise returns the
\* trimmed name and the trimmed kept fields
validate_company_data(data, eok, uok) ==
    LET trimmed == StripChars(DictGet(data, "company_name", <<>>), Whitespace)
    IN  IF trimmed = <<>> THEN [raises |-> TRUE]
        ELSE [raises |-> FALSE,
              value  |-> [f \in {"company_name"} \cup KeptFields(data, eok, uok) |->
                             IF f = "company_name" THEN trimmed
                             ELSE StripChars(data[f], Whitespace)]]

----------------------------------------------------------------------------
(* scraper/k_online_scraper.py: _parse_company_from_element *)

K_ONLINE_BASE_URL == <<"h","t","t","p","s",":","/","/","w","w","w",".","k","-","o","n","l","i","n","e",".","d","e","/","v","i","s","/","v","1","/","d","e","/","d","i","r","e","c","t","o","r","y","/","a">>

\* Tag.get_text(strip=True) of a tag holding one text node
GetTextStrip(text) == StripChars(text, Whitespace)

\* element.find(['h2','h3','h4'], class_=<name|title>), or else
\* element.find(['h2','h3','h4']): the heading whose text is the name
RECURSIVE FirstNamed(_)
FirstNamed(headings) ==
    IF headings = <<>> THEN <<>>
    ELSE IF headings[1].named THEN <<headings[1]>>
    ELSE FirstNamed(Tail(headings))

NameElement(el) ==
    IF FirstNamed(el.headings) # <<>> THEN FirstNamed(el.headings)
    ELSE IF el.headings # <<>> THEN <<el.headings[1]>>
    ELSE <<>>

\* the test of the name taken from a <strong>: len(text) > 5 only
QualifiesAsNameByLength(text) == Len(text) > 5

\* len(text) > 5 and not any(char.isdigit() for char in text[:5])
QualifiesAsName(text) ==
    /\ Len(text) > 5
    /\ \A i \in 1..Min(5, Len(text)) : text[i] \notin Digits

\* for strong in strong_elements: the first text that qualifies
RECURSIVE FirstQualifying(_)
FirstQualifying(strongs) ==
    IF strongs = <<>> THEN <<>>
    ELSE IF QualifiesAsName(GetTextStrip(strongs[1]))
         THEN <<GetTextStrip(strongs[1])>>
    ELSE FirstQualifying(Tail(strongs))

\* company_data after the name extraction (lines 102-118)
NameExtracted(el) ==
    IF NameElement(el) # <<>>
    THEN DictPut(EmptyDict, "company_name", GetTextStrip(NameElement(el)[1].text))
    ELSE IF FirstQualifying(el.strongs) # <<>>
    THEN DictPut(EmptyDict, "company_name", FirstQualifying(el.strongs)[1])
    ELSE EmptyDict

\* not company_data.get('company_name')
NameMissing(data) == DictGet(data, "company_name", <<>>) = <<>>

\* source_url or self.base_url
SourceUrlOr(arg, fallback) ==
    IF IsNone(arg) \/ arg[1] = <<>> THEN fallback ELSE arg[1]

\* the source URL is left out of company_data
SourceUrlForgotten(data, arg) == data

\* company_data['source_url'] = source_url or self.base_url
WithSourceUrl(data, arg) ==
    DictPut(data, "source_url", SourceUrlOr(arg, K_ONLINE_BASE_URL))

\* sub in s
Substring(s, sub) ==
    \E i \in 1..(Len(s) - Len(sub) + 1) : SubSeq(s, i, i + Len(sub) - 1) = sub

\* extract_postal_code: the first match of \b(\d{5})\b, or None
extract_postal_code(address_text) ==
    LET starts == {i \in 1..(Len(address_text) - 4) :
                     /\ \A j \in i..(i + 4) : address_text[j] \in Digits
                     /\ ~IsWordAt(address_text, i - 1)
                     /\ ~IsWordAt(address_text, i + 5)}
    IN  IF starts = {} THEN <<>>
        ELSE LET first == CHOOSE i \in starts : \A j \in starts : i <= j
             IN  <<SubSeq(address_text, first, first + 4)>>

\* s.replace(sub, '') for a non-empty sub
RECURSIVE RemoveAll(_, _)
RemoveAll(s, sub) ==
    IF Len(s) < Len(sub) THEN s
    ELSE IF SubSeq(s, 1, Len(sub)) = sub
         THEN RemoveAll(SubSeq(s, Len(sub) + 1, Len(s)), sub)
         ELSE <<s[1]>> \o RemoveAll(Tail(s), sub)

\* [line.strip() for line in address_text.split('\n') if line.strip()]
StrippedLines(address_text) ==
    LET split == Split(address_text, "\n")
    IN  SelectSeq([i \in 1..Len(split) |-> StripChars(split[i], Whitespace)],
                  IsNonEmpty)

\* the loop of parse_address over lines: the city is what is left of the
\* first line that contains the postal code
RECURSIVE CityFrom(_, _, _)
CityFrom(res, lines, postal_code) ==
    IF lines = <<>> \/ postal_code = <<>> THEN res
    ELSE IF Substring(lines[1], postal_code[1])
         THEN LET city_part ==
                      StripChars(RemoveAll(lines[1], postal_code[1]), Whitespace)
              IN  IF city_part # <<>> THEN DictPut(res, "city", city_part)
                  ELSE res
         ELSE CityFrom(res, Tail(lines), postal_code)

parse_address(address_text) ==
    IF address_text = <<>> THEN EmptyDict
    ELSE LET postal_code == extract_postal_code(address_text)
             r1 == IF postal_code # <<>>
                   THEN DictPut(EmptyDict, "postal_code", postal_code[1])
                   ELSE EmptyDict
             lines == StrippedLines(address_text)
         IN  IF lines # <<>>
             THEN CityFrom(DictPut(r1, "address", lines[1]), lines, postal_code)
             ELSE r1

\* lines 124-130: the texts of the address and contact blocks, each
\* followed by a newline
RECURSIVE AddressText(_)
AddressText(blocks) ==
    IF blocks = <<>> THEN <<>>
    ELSE LET addr_text == GetTextStrip(blocks[1])
         IN  (IF addr_text # <<>> THEN addr_text \o <<"\n">> ELSE <<>>)
                 \o AddressText(Tail(blocks))

\* lines 132-135
WithAddress(data, blocks) ==
    LET address_text == AddressText(blocks)
    IN  IF address_text # <<>>
        THEN DictPut(DictUpdate(data, parse_address(address_text)),
                     "address", StripChars(address_text, Whitespace))
        ELSE data

\* company_data after the extraction of the optional fields (lines 123-182):
\* el.addresses are the texts of the address and contact blocks, el.found
\* is what the phone, booth and category steps put into company_data,
\* el.email the first match of the email pattern, el.website the first
\* external link
FieldsExtracted(data, el, arg) ==
    LET d1 == DictUpdate(WithAddress(data, el.addresses), el.found)
        d2 == IF el.email # <<>> THEN DictPut(d1, "email", el.email[1]) ELSE d1
        d3 == IF el.website # <<>> THEN DictPut(d2, "website", el.website[1]) ELSE d2
    IN  WithSourceUrl(d3, arg)

NoneResult == [kind |-> "None"]
RecordResult(d) == [kind |-> "record", value |-> d]

\* return validate_company_data(company_data), inside try/except Exception
ValidatedOrNone(outcome) ==
    IF outcome.raises THEN NoneResult ELSE RecordResult(outcome.value)

\* listing elements: the headings (h2, h3, h4) in document order, the texts
\* of the <strong> tags, and what the later extraction steps find
ElementHeadings == {
    <<>>,
    <<[named |-> FALSE, text |-> <<" ">>]>>,
    <<[named |-> FALSE, text |-> <<" ","A","c","m","e"," ","A","G"," ">>]>>,
    <<[named |-> FALSE, text |-> <<"F","o","o"," ","K","G">>],
      [named |-> TRUE, text |-> <<"B","a","r"," ","A","G">>]>>,
    <<[named |-> TRUE, text |-> <<>>],
      [named |-> FALSE, text |-> <<"F","o","o"," ","K","G">>]>>}

ElementStrongs == {
    <<>>,
    <<<<"A","c","m","e">>>>,
    <<<<"1","2","3","4","5"," ","O","r","t">>,
      <<" ","A","c","m","e"," ","A","G"," ">>>>,
    <<<<" ">>>>,
    <<<<"H","a","l","l","e"," ","1","2">>>>,
    <<<<"A","b","1"," ","G","m","b","H">>>>}

ElementEmails == {<<>>, <<<<"i","n","f","o","@","a","c","m","e",".","d","e">>>>}
ElementWebsites == {<<>>, <<<<"h","t","t","p",":","/","/","a","c","m","e",".","d","e">>>>}
ElementFound == {
    EmptyDict,
    [f \in {"phone", "industry"} |->
        IF f = "phone" THEN <<"+","4","9","3","0","1","2","3">>
        ELSE <<"K","u","n","s","t","s","t","o","f","f">>]}

\* the texts of the <p> and <div> blocks of class address or contact
ElementAddresses == {
    <<>>,
    <<<<" ">>>>,
    <<<<"W","e","g"," ","1">>>>,
    <<<<"W","e","g"," ","1">>,
      <<"1","2","3","4","5"," ","O","r","t">>>>,
    <<<<" ","W","e","g"," ","1","\n"," ","1","2","3","4","5"," ","O","r","t"," ">>>>}

Elements ==
    [headings : ElementHeadings, strongs : ElementStrongs,
     addresses : ElementAddresses,
     email : ElementEmails, website : ElementWebsites, found : ElementFound]

PageUrl == <<"h","t","t","p","s",":","/","/","w","w","w",".","k","-","o","n","l","i","n","e",".","d","e","/","v","i","s","/","v","1","/","d","e","/","d","i","r","e","c","t","o","r","y","/","b">>

\* the source_url argument: None, the empty string, a page URL
SourceUrlArgs == {<<>>, <<<<>>>>, <<PageUrl>>}

NoElement ==
    [headings |-> <<>>, strongs |-> <<>>, addresses |-> <<>>, email |-> <<>>,
     website |-> <<>>, found |-> EmptyDict]

\* dicts handed to validate_company_data
ValidateNames == {<<>>, <<" ">>, <<"\t"," ">>, <<"A","c","m","e"," ","A","G">>, <<" ","A","c","m","e"," ","A","G"," ">>}

ValidateInputs ==
    {DictUpdate(DictUpdate(
        [f \in {"company_name", "source_url"} |->
            IF f = "company_name" THEN n ELSE PageUrl],
        found),
        [f \in ({"email"} \cap em) \cup ({"website"} \cap ws) |->
            IF f = "email" THEN <<"i","n","f","o","@","a","c","m","e",".","d","e">>
            ELSE <<"h","t","t","p",":","/","/","a","c","m","e",".","d","e">>]) :
     n \in ValidateNames, found \in ElementFound,
     em \in SUBSET {"email"}, ws \in SUBSET {"website"}}
    \cup {EmptyDict}

----------------------------------------------------------------------------
(* scraper/k_online_scraper.py: _scrape_page_with_requests, the listing    *)
(* locator                                                                 *)

\* company_selectors, in the order of the list: '.x' selects by class
\* token, '[class*="x"]' by a substring of the class attribute
company_selectors == <<
    [kind |-> "class", arg |-> <<"e","x","h","i","b","i","t","o","r","-","i","t","e","m">>],
    [kind |-> "class", arg |-> <<"c","o","m","p","a","n","y","-","i","t","e","m">>],
    [kind |-> "class", arg |-> <<"l","i","s","t","i","n","g","-","i","t","e","m">>],
    [kind |-> "class", arg |-> <<"d","i","r","e","c","t","o","r","y","-","e","n","t","r","y">>],
    [kind |-> "contains", arg |-> <<"e","x","h","i","b","i","t","o","r">>],
    [kind |-> "contains", arg |-> <<"c","o","m","p","a","n","y">>],
    [kind |-> "contains", arg |-> <<"l","i","s","t","i","n","g">>]>>

\* whether a CSS selector of company_selectors selects a node
Selects(selector, node) ==
    IF selector.kind = "class"
    THEN selector.arg \in Range(node.class)
    ELSE Substring(Join(node.class, " "), selector.arg)

\* a set of positions of a page as a list in document order
RECURSIVE DocumentOrder(_)
DocumentOrder(positions) ==
    IF positions = {} THEN <<>>
    ELSE LET first == CHOOSE i \in positions : \A j \in positions : i <= j
         IN  <<first>> \o DocumentOrder(positions \ {first})

\* soup.select(selector)
Select(pg, selector) ==
    DocumentOrder({i \in 1..Len(pg) : Selects(selector, pg[i])})

\* re.search(r'\d{5}', text)
HasFiveDigits(text) ==
    \E i \in 1..(Len(text) - 4) : \A j \in i..(i + 4) : text[j] \in Digits

legal_keywords == <<<<"g","m","b","h">>, <<"a","g">>, <<"k","g">>, <<"l","t","d">>, <<"i","n","c">>, <<"c","o","r","p">>>>

\* the test of the fallback on one div, article or section
LooksLikeCompany(node) ==
    LET text == StripChars(node.text, Whitespace) IN
    /\ node.tag \in {"div", "article", "section"}
    /\ Len(text) > 50
    /\ \E k \in 1..Len(legal_keywords) : Substring(LowerStr(text), legal_keywords[k])
    /\ (HasFiveDigits(text) \/ "@" \in Range(text))

\* the fallback of lines 219-229
FallbackElements(pg) ==
    DocumentOrder({i \in 1..Len(pg) : LooksLikeCompany(pg[i])})


\* where the loop over company_selectors stands after a match: it goes on
\* with the next selector
AfterMatchContinue(i) == [lpc |-> "select", si |-> i + 1]

\* where the loop over company_selectors stands after a match: break
AfterMatch(i) == [lpc |-> "process", si |-> i]

\* nodes of a page: tag, class attribute (the list of class tokens), text
PageNodes == {
    [tag |-> "div", class |-> <<<<"e","x","h","i","b","i","t","o","r","-","i","t","e","m">>>>,
     text |-> <<"A">>],
    [tag |-> "div", class |-> <<<<"c","a","r","d">>, <<"c","o","m","p","a","n","y","-","i","t","e","m">>>>,
     text |-> <<"B">>],
    [tag |-> "li", class |-> <<<<"l","i","s","t","i","n","g","-","i","t","e","m">>>>,
     text |-> <<"C">>],
    [tag |-> "div", class |-> <<<<"d","i","r","e","c","t","o","r","y","-","e","n","t","r","y">>>>,
     text |-> <<"D">>],
    [tag |-> "div", class |-> <<<<"e","x","h","i","b","i","t","o","r","s">>>>,
     text |-> <<"E">>],
    [tag |-> "div", class |-> <<<<"c","o","m","p","a","n","y","-","c","a","r","d">>>>,
     text |-> <<"F">>],
    [tag |-> "div", class |-> <<>>,
     text |-> <<"M","u","s","t","e","r"," ","G","m","b","H",","," ","M","u","s","t","e","r","w","e","g"," ","1",","," ","1","2","3","4","5"," ","B","e","r","l","i","n",","," ","T","e","l","."," ","0","3","0"," ","1","2","3","4","5","6","7">>],
    [tag |-> "div", class |-> <<>>,
     text |-> <<"W","e","l","c","o","m","e"," ","t","o"," ","t","h","e"," ","l","i","s","t"," ","o","f"," ","e","x","h","i","b","i","t","o","r","s"," ","o","f"," ","t","h","e"," ","f","a","i","r",","," ","4","0","4","7","4"," ","D">>],
    [tag |-> "section", class |-> <<>>,
     text |-> <<"M","u","s","t","e","r"," ","G","m","b","H"," ","i","s"," ","o","n","e"," ","o","f"," ","t","h","e"," ","e","x","h","i","b","i","t","o","r","s"," ","o","f"," ","t","h","e"," ","f","a","i","r"," ","h","e","r","e">>],
    [tag |-> "span", class |-> <<>>,
     text |-> <<"M","u","s","t","e","r"," ","G","m","b","H",","," ","M","u","s","t","e","r","w","e","g"," ","1",","," ","1","2","3","4","5"," ","B","e","r","l","i","n",","," ","T","e","l","."," ","0","3","0"," ","1","2","3","4","5","6","7">>],
    [tag |-> "div", class |-> <<>>,
     text |-> <<"A","c","m","e"," ","G","m","b","H"," ","1","2","3","4","5">>]}

\* a page: its nodes in document order
Pages == SeqsUpTo(PageNodes, MaxPageLen)

----------------------------------------------------------------------------
(* scraper/k_online_scraper.py: _make_request and scrape_companies *)

\* SCRAPING_CONFIG['retry_attempts']
retry_attempts == 3

RECURSIVE Repeat(_, _)
Repeat(s, n) == IF n <= 0 THEN <<>> ELSE s \o Repeat(s, n - 1)

\* _make_request when the first `failures` attempts fail: a request per
\* attempt and a sleep between two attempts; after retry_attempts failed
\* attempts it gives up and returns None
RequestEvents(failures) ==
    IF failures < retry_attempts
    THEN Repeat(<<"fetch", "sleep">>, failures) \o <<"fetch">>
    ELSE Repeat(<<"fetch", "sleep">>, retry_attempts - 1) \o <<"fetch">>

\* bool(max_pages): None and 0 are false
Truthy(opt) == opt # <<>> /\ opt[1] # 0

\* lst[:k] for k >= 0
Prefix(lst, k) == SubSeq(lst, 1, Min(k, Len(lst)))

\* if max_pages: urls_to_scrape = urls_to_scrape[:max_pages]
LimitPages(lst, opt) == IF Truthy(opt) THEN Prefix(lst, opt[1]) ELSE lst

\* the records found on page url: k of them, in the order of the page
PageRecords(url, k) == [j \in 1..k |-> [page |-> url, item |-> j]]

\* the rate limiting of lines 376-379: a sleep unless the page is the last
RateLimit(i, n) == IF i < n THEN <<"sleep">> ELSE <<>>

\* the loop stops at the page whose scraping raised
AfterExceptionStop(i, n) == n + 1

\* except Exception: continue
AfterException(i, n) == i + 1

----------------------------------------------------------------------------
(* scraper/domain_generator.py: process_companies, get_domain_statistics *)

\* sep.join(words) for a separator of any length
RECURSIVE JoinStr(_, _)
JoinStr(words, sep) ==
    IF words = <<>> THEN <<>>
    ELSE IF Len(words) = 1 THEN words[1]
    ELSE words[1] \o sep \o JoinStr(Tail(words), sep)

\* the dict built by d[key] = d.get(key, 0) + 1 over the values of a list
CountsOf(values) ==
    [v \in Range(values) |-> Cardinality({j \in 1..Len(values) : values[j] = v})]

\* the number of distinct variants is stored as domain_count
DomainCountOfVariants(doms) ==
    Cardinality({doms[j].variant : j \in 1..Len(doms)})

\* result['domain_count'] = len(domains)
DomainCount(doms) == Len(doms)

\* result = company.copy() and the four enrichment fields
Enriched(company, doms) ==
    [f \in DOMAIN company \cup {"generated_domains", "domain_count",
                                "domain_list", "domain_status_summary"} |->
        IF f = "generated_domains" THEN doms
        ELSE IF f = "domain_count" THEN DomainCount(doms)
        ELSE IF f = "domain_list"
             THEN JoinStr([j \in 1..Len(doms) |-> doms[j].domain], <<",", " ">>)
        ELSE IF f = "domain_status_summary"
             THEN CountsOf([j \in 1..Len(doms) |-> doms[j].status])
        ELSE company[f]]

\* result is the input dict itself: the enrichment is written into it
CompanyAfterEnrichAliased(company, enriched) == enriched

\* the enrichment is written into the copy: the input dict is as before
CompanyAfterEnrich(company, enriched) == company

RECURSIVE SumSeq(_)
SumSeq(ns) == IF ns = <<>> THEN 0 ELSE ns[1] + SumSeq(Tail(ns))

RECURSIVE ConcatAll(_)
ConcatAll(lists) ==
    IF lists = <<>> THEN <<>> ELSE lists[1] \o ConcatAll(Tail(lists))

\* every domain of the processed companies, company by company
AllDomains(processed) ==
    ConcatAll([j \in 1..Len(processed) |->
                  DictGet(processed[j], "generated_domains", <<>>)])

\* round(total / n, 2) in hundredths; for n <= 7 no quotient lies halfway
\* between two hundredths, so the nearest hundredth is the rounded value
RoundedAverage(total, n) ==
    IF n > 0 THEN (200 * total + n) \div (2 * n) ELSE 0

get_domain_statistics(processed) ==
    LET total_domains ==
            SumSeq([j \in 1..Len(processed) |->
                       DictGet(processed[j], "domain_count", 0)])
        all == AllDomains(processed)
    IN  [total_companies |-> Len(processed),
         total_domains |-> total_domains,
         avg_domains_per_company_hundredths |->
             RoundedAverage(total_domains, Len(processed)),
         status_distribution |-> CountsOf([j \in 1..Len(all) |-> all[j].status]),
         tld_distribution |-> CountsOf([j \in 1..Len(all) |-> all[j].tld])]

\* company records handed to process_companies
CompanyRecords == {
    [f \in {"city"} |-> <<"B","e","r","l","i","n">>],
    [f \in {"company_name", "city"} |->
        IF f = "company_name" THEN <<>> ELSE <<"B","e","r","l","i","n">>],
    [f \in {"company_name", "city"} |->
        IF f = "company_name" THEN <<"a","b">> ELSE <<"B","e","r","l","i","n">>],
    [f \in {"company_name"} |-> <<"G","m","b","H">>],
    [f \in {"company_name"} |-> <<"_","a">>],
    [f \in {"company_name", "industry"} |->
        IF f = "company_name" THEN <<"a"," ","b">> ELSE <<"S","o","f","t","w","a","r","e">>]}

\* the configurations of the DomainGenerator that processes them
ProcessConfigs ==
    {[tlds |-> DefaultTlds, max_variants_per_company |-> 1,
      check_availability |-> c] : c \in BOOLEAN}
    \cup {[tlds |-> DefaultTlds, max_variants_per_company |-> 2,
           check_availability |-> FALSE]}

NoStatistics == [total_companies |-> 0, total_domains |-> 0,
                 avg_domains_per_company_hundredths |-> 0,
                 status_distribution |-> EmptyDict,
                 tld_distribution |-> EmptyDict]

----------------------------------------------------------------------------
(* utils/validators.py: normalize_phone_number *)

RECURSIVE KeepOnly(_, _)
KeepOnly(s, keep) ==
    IF s = <<>> THEN <<>>
    ELSE (IF s[1] \in keep THEN <<s[1]>> ELSE <<>>) \o KeepOnly(Tail(s), keep)

\* re.sub(r'[^\d+]', '', phone), then the German country code unless the
\* result is empty or starts with '+'
normalize_phone_number(p) ==
    IF p = <<>> THEN <<>>
    ELSE LET kept == KeepOnly(p, Digits \cup {"+"})
         IN  IF kept # <<>> /\ kept[1] # "+"
             THEN IF kept[1] = "0" THEN <<"+", "4", "9">> \o Tail(kept)
                  ELSE <<"+", "4", "9">> \o kept
             ELSE kept

PhoneAlphabet == {"0", "1", "+", " ", "-"}

\* phone texts handed to normalize_phone_number
PhoneInputs ==
    SeqsUpTo(PhoneAlphabet, MaxPhoneLen) \cup {
        <<"0","3","0"," ","1","2","3","4","5","6","7">>,
        <<"+","4","9"," ","3","0"," ","1","2","3","4","5","6","7">>,
        <<"T","e","l",".",":"," ","+","4","9"," ","3","0"," ","1","2","3","4","5","6","7">>,
        <<"1","2","+","3","4">>}

----------------------------------------------------------------------------
(* Two DomainGenerators probing domains at the same time *)

Builders == {"A", "B"}

\* DOMAIN_CONFIG['timeout_dns_check'], also the default of config.get
DefaultDnsTimeout == 5

\* the timeout_dns_check values the builders are configured with
DnsTimeouts == {1, DefaultDnsTimeout}

\* domains handed to check_domain_availability
ProbeDomains == {<<"a","b",".","d","e">>, <<"_","a",".","d","e">>}

----------------------------------------------------------------------------
(* The groups of variables left alone by the other specifications *)

CleanIdle ==
    /\ name = <<>> /\ slug = <<>> /\ reslug = <<>> /\ npc = "idle"

BuildIdle ==
    /\ company_name = <<>> /\ config = [tlds |-> DefaultTlds,
            max_variants_per_company |-> DefaultMaxVariants,
            check_availability |-> FALSE]
    /\ pc = "idle" /\ base_name = <<>> /\ variants = <<>> /\ vi = 0 /\ ti = 0
    /\ domains = <<>> /\ probes = <<>>

ParseIdle ==
    /\ element = NoElement /\ source_url = <<>>
    /\ email_ok = FALSE /\ url_ok = FALSE
    /\ company_data = EmptyDict /\ ppc = "idle" /\ result = NoneResult

LocateIdle ==
    /\ via = "idle" /\ page = <<>> /\ si = 0 /\ tried = <<>> /\ company_elements = <<>>
    /\ lpc = "idle"

ScrapeIdle ==
    /\ max_pages = <<>> /\ urls_to_scrape = <<>> /\ pi = 0
    /\ all_companies = <<>> /\ outcomes = <<>> /\ events = <<>>
    /\ spc = "idle"

ProcessIdle ==
    /\ companies = <<>> /\ input = <<>> /\ ci = 0 /\ results = <<>>
    /\ stats = NoStatistics /\ qpc = "idle"

PhoneIdle == phone = <<>> /\ normalized = <<>> /\ hpc = "idle"

ProbeIdle ==
    /\ dns_timeout = <<>> /\ default_timeout = <<>> /\ todo = <<>>
    /\ tpc = <<>> /\ used = <<>> /\ statuses = <<>>

RequestIdle ==
    /\ retries = <<>> /\ configured = 0 /\ attempts = 0 /\ attempt = 0
    /\ gets = <<>> /\ naps = 0 /\ mpc = "idle" /\ response = <<>>

CloseIdle ==
    /\ driver = <<>> /\ quits = <<>> /\ session_closes = 0 /\ closes = 0
    /\ kpc = "idle"

CliIdle ==
    /\ generate_domains = FALSE /\ scraper = <<>> /\ scraped_count = 0
    /\ processed_count = 0
    /\ path = "" /\ scraper_closes = 0 /\ cpc = "idle"

DiscoverIdle ==
    /\ base_url = <<>> /\ anchors = <<>> /\ urls = <<>> /\ dpc = "idle"

notCleanVars == <<buildVars, parseVars, locateVars, scrapeVars,
      processVars, phoneVars, probeVars, requestVars, closeVars, cliVars,
      discoverVars>>
notBuildVars == <<cleanVars, parseVars, locateVars, scrapeVars,
      processVars, phoneVars, probeVars, requestVars, closeVars, cliVars,
      discoverVars>>
notParseVars == <<cleanVars, buildVars, locateVars, scrapeVars,
      processVars, phoneVars, probeVars, requestVars, closeVars, cliVars,
      discoverVars>>
notLocateVars == <<cleanVars, buildVars, parseVars, scrapeVars,
      processVars, phoneVars, probeVars, requestVars, closeVars, cliVars,
      discoverVars>>
notScrapeVars == <<cleanVars, buildVars, parseVars, locateVars,
      processVars, phoneVars, probeVars, requestVars, closeVars, cliVars,
      discoverVars>>
notProcessVars == <<cleanVars, buildVars, parseVars, locateVars,
      scrapeVars, phoneVars, probeVars, requestVars, closeVars, cliVars,
      discoverVars>>
notPhoneVars == <<cleanVars, buildVars, parseVars, locateVars, scrapeVars,
      processVars, probeVars, requestVars, closeVars, cliVars, discoverVars>>
notProbeVars == <<cleanVars, buildVars, parseVars, locateVars, scrapeVars,
      processVars, phoneVars, requestVars, closeVars, cliVars, discoverVars>>
notRequestVars == <<cleanVars, buildVars, parseVars, locateVars,
      scrapeVars, processVars, phoneVars, probeVars, closeVars, cliVars,
      discoverVars>>
notCloseVars == <<cleanVars, buildVars, parseVars, locateVars, scrapeVars,
      processVars, phoneVars, probeVars, requestVars, cliVars, discoverVars>>
notCliVars == <<cleanVars, buildVars, parseVars, locateVars, scrapeVars,
      processVars, phoneVars, probeVars, requestVars, closeVars,
      discoverVars>>
notDiscoverVars == <<cleanVars, buildVars, parseVars, locateVars,
      scrapeVars, processVars, phoneVars, probeVars, requestVars,
      closeVars, cliVars>>
notBuildProcessVars == <<cleanVars, parseVars, locateVars, scrapeVars,
      phoneVars, probeVars, requestVars, closeVars, cliVars, discoverVars>>

NotCleanIdle ==
    /\ BuildIdle
    /\ ParseIdle
    /\ LocateIdle
    /\ ScrapeIdle
    /\ ProcessIdle
    /\ PhoneIdle
    /\ ProbeIdle
    /\ RequestIdle
    /\ CloseIdle
    /\ CliIdle
    /\ DiscoverIdle

NotBuildIdle ==
    /\ CleanIdle
    /\ ParseIdle
    /\ LocateIdle
    /\ ScrapeIdle
    /\ ProcessIdle
    /\ PhoneIdle
    /\ ProbeIdle
    /\ RequestIdle
    /\ CloseIdle
    /\ CliIdle
    /\ DiscoverIdle

NotParseIdle ==
    /\ CleanIdle
    /\ BuildIdle
    /\ LocateIdle
    /\ ScrapeIdle
    /\ ProcessIdle
    /\ PhoneIdle
    /\ ProbeIdle
    /\ RequestIdle
    /\ CloseIdle
    /\ CliIdle
    /\ DiscoverIdle

NotLocateIdle ==
    /\ CleanIdle
    /\ BuildIdle
    /\ ParseIdle
    /\ ScrapeIdle
    /\ ProcessIdle
    /\ PhoneIdle
    /\ ProbeIdle
    /\ RequestIdle
    /\ CloseIdle
    /\ CliIdle
    /\ DiscoverIdle

NotScrapeIdle ==
    /\ CleanIdle
    /\ BuildIdle
    /\ ParseIdle
    /\ LocateIdle
    /\ ProcessIdle
    /\ PhoneIdle
    /\ ProbeIdle
    /\ RequestIdle
    /\ CloseIdle
    /\ CliIdle
    /\ DiscoverIdle

NotProcessIdle ==
    /\ CleanIdle
    /\ BuildIdle
    /\ ParseIdle
    /\ LocateIdle
    /\ ScrapeIdle
    /\ PhoneIdle
    /\ ProbeIdle
    /\ RequestIdle
    /\ CloseIdle
    /\ CliIdle
    /\ DiscoverIdle

NotPhoneIdle ==
    /\ CleanIdle
    /\ BuildIdle
    /\ ParseIdle
    /\ LocateIdle
    /\ ScrapeIdle
    /\ ProcessIdle
    /\ ProbeIdle
    /\ RequestIdle
    /\ CloseIdle
    /\ CliIdle
    /\ DiscoverIdle

NotProbeIdle ==
    /\ CleanIdle
    /\ BuildIdle
    /\ ParseIdle
    /\ LocateIdle
    /\ ScrapeIdle
    /\ ProcessIdle
    /\ PhoneIdle
    /\ RequestIdle
    /\ CloseIdle
    /\ CliIdle
    /\ DiscoverIdle

NotRequestIdle ==
    /\ CleanIdle
    /\ BuildIdle
    /\ ParseIdle
    /\ LocateIdle
    /\ ScrapeIdle
    /\ ProcessIdle
    /\ PhoneIdle
    /\ ProbeIdle
    /\ CloseIdle
    /\ CliIdle
    /\ DiscoverIdle

NotCloseIdle ==
    /\ CleanIdle
    /\ BuildIdle
    /\ ParseIdle
    /\ LocateIdle
    /\ ScrapeIdle
    /\ ProcessIdle
    /\ PhoneIdle
    /\ ProbeIdle
    /\ RequestIdle
    /\ CliIdle
    /\ DiscoverIdle

NotCliIdle ==
    /\ CleanIdle
    /\ BuildIdle
    /\ ParseIdle
    /\ LocateIdle
    /\ ScrapeIdle
    /\ ProcessIdle
    /\ PhoneIdle
    /\ ProbeIdle
    /\ RequestIdle
    /\ CloseIdle
    /\ DiscoverIdle

NotDiscoverIdle ==
    /\ CleanIdle
    /\ BuildIdle
    /\ ParseIdle
    /\ LocateIdle
    /\ ScrapeIdle
    /\ ProcessIdle
    /\ PhoneIdle
    /\ ProbeIdle
    /\ RequestIdle
    /\ CloseIdle
    /\ CliIdle

NotBuildProcessIdle ==
    /\ CleanIdle
    /\ ParseIdle
    /\ LocateIdle
    /\ ScrapeIdle
    /\ PhoneIdle
    /\ ProbeIdle
    /\ RequestIdle
    /\ CloseIdle
    /\ CliIdle
    /\ DiscoverIdle

----------------------------------------------------------------------------
(* The normalizer called on a name, then on its own result *)

InitClean ==
    /\ name \in CleanNames
    /\ slug = <<>> /\ reslug = <<>> /\ npc = "new"
    /\ NotCleanIdle

CleanOnce ==
    /\ npc = "new"
    /\ slug' = clean_company_name(name)
    /\ npc' = "cleaned"
    /\ UNCHANGED <<name, reslug>>
    /\ UNCHANGED notCleanVars

CleanTwice ==
    /\ npc = "cleaned"
    /\ reslug' = clean_company_name(slug)
    /\ npc' = "twice"
    /\ UNCHANGED <<name, slug>>
    /\ UNCHANGED notCleanVars

NextClean == CleanOnce \/ CleanTwice

SpecClean == InitClean /\ [][NextClean]_vars

----------------------------------------------------------------------------
(* One call of DomainGenerator.generate_full_domains *)

Init ==
    /\ company_name \in BuildNames
    /\ config \in Configs
    /\ pc = "call"
    /\ base_name = <<>> /\ variants = <<>> /\ vi = 0 /\ ti = 0
    /\ domains = <<>> /\ probes = <<>>
    /\ NotBuildIdle

\* variants = self.generate_domain_variants(company_name); domains = []
CallVariants ==
    /\ pc = "call"
    /\ \E lst \in generate_domain_variants(company_name,
                                           config.max_variants_per_company) :
           variants' = lst
    /\ base_name' = clean_company_name(company_name)
    /\ vi' = 1 /\ ti' = 1
    /\ pc' = "loop"
    /\ UNCHANGED <<company_name, config, domains, probes>>
    /\ UNCHANGED notBuildVars

InLoop == pc = "loop" /\ vi <= Len(variants)

CurrentDomain == variants[vi] \o config.tlds[ti]

Advance ==
    /\ vi' = NextPair(vi, ti, Len(config.tlds))[1]
    /\ ti' = NextPair(vi, ti, Len(config.tlds))[2]
    /\ UNCHANGED <<company_name, config, pc, base_name, variants>>
    /\ UNCHANGED notBuildVars

\* if not validate_domain(domain): continue
SkipInvalid ==
    /\ InLoop
    /\ ~PassesValidation(CurrentDomain)
    /\ UNCHANGED <<domains, probes>>
    /\ Advance

\* check_domain_availability is off: the candidate keeps status 'unknown'
EmitUnchecked ==
    /\ InLoop
    /\ PassesValidation(CurrentDomain)
    /\ ~config.check_availability
    /\ domains' = ListAppend(domains,
                             DomainInfo(variants[vi], config.tlds[ti], "unknown"))
    /\ UNCHANGED probes
    /\ Advance

\* check_domain_availability is on: one probe, whose result is the status
EmitChecked ==
    /\ InLoop
    /\ PassesValidation(CurrentDomain)
    /\ config.check_availability
    /\ \E lookup \in LookupOutcomes :
         /\ probes' = Append(probes, [domain |-> CurrentDomain, lookup |-> lookup])
         /\ domains' = ListAppend(domains,
               DomainInfo(variants[vi], config.tlds[ti],
                   StatusAfterProbe(check_domain_availability(CurrentDomain, lookup))))
    /\ Advance

\* return domains
Return ==
    /\ pc = "loop"
    /\ vi > Len(variants)
    /\ pc' = "done"
    /\ UNCHANGED <<company_name, config, base_name, variants, vi, ti, domains, probes>>
    /\ UNCHANGED notBuildVars

Next == CallVariants \/ SkipInvalid \/ EmitUnchecked \/ EmitChecked \/ Return

Spec == Init /\ [][Next]_vars

----------------------------------------------------------------------------
(* Properties of generate_domain_variants *)

Called == pc \in {"loop", "done"}
Cap == config.max_variants_per_company
Generated == InsertionOrder(base_name, Cap)

\* C1: for every company name and every cap k >= 0, the list returned by
\* generate_domain_variants has at most k entries.
C1_AtMostMaxVariants ==
    (Called /\ Cap >= 0) => Len(variants) <= Cap

\* C1 witness: more variants were generated than the cap and the returned
\* list was cut to exactly the cap
C1_Witness ==
    /\ pc = "done" /\ Cap >= 1
    /\ base_name # <<>> /\ Len(Generated) > Cap
    /\ Len(variants) = Cap

\* C2: for every company name with a non-empty slug and every cap k >= 1
\* the returned list contains the slug clean_company_name(company_name).
\* (A name whose slug is empty has no variants at all, see C10; the claim is
\* stated here for the names that have a slug.)
C2_ContainsSlug ==
    (Called /\ base_name # <<>> /\ Cap >= 1) => base_name \in Range(variants)

\* C5: when more variants are generated than the cap, the returned list is
\* the first `cap` variants in insertion order (slug, hyphen-less slug,
\* abbreviation, short variant, numeric forms).
C5_InsertionOrderPrefix ==
    (Called /\ base_name # <<>> /\ Cap >= 0 /\ Len(Generated) > Cap)
        => variants = SubSeq(Generated, 1, Cap)

----------------------------------------------------------------------------
(* Properties of clean_company_name *)

Cleaned == npc \in {"cleaned", "twice"}

Contains(s, sub) ==
    \E i \in 1..(Len(s) - Len(sub) + 1) : SubSeq(s, i, i + Len(sub) - 1) = sub

\* the folds the specification gives for the four German letters
GermanFold(c) ==
    IF c = "ä" THEN <<"a","e">> ELSE IF c = "ö" THEN <<"o","e">>
    ELSE IF c = "ü" THEN <<"u","e">> ELSE <<"s","s">>

RECURSIVE GermanFoldStr(_)
GermanFoldStr(s) ==
    IF s = <<>> THEN <<>> ELSE GermanFold(s[1]) \o GermanFoldStr(Tail(s))

MuellerCoKG == <<"M","ü","l","l","e","r"," ","&"," ","C","o","."," ","K","G">>

\* C3: clean_company_name folds ä to ae, ö to oe, ü to ue and ß to ss; the
\* slug of "Müller & Co. KG" contains "mueller" and does not contain "kg".
C3_FoldsGermanLetters ==
    Cleaned =>
        /\ (name # <<>> /\ Range(name) \subseteq {"ä", "ö", "ü", "ß"})
               => slug = GermanFoldStr(name)
        /\ name = MuellerCoKG
               => /\ Contains(slug, <<"m","u","e","l","l","e","r">>)
                  /\ ~Contains(slug, <<"k","g">>)

\* C4: clean_company_name is idempotent on its own outputs:
\* clean_company_name(clean_company_name(x)) = clean_company_name(x).
C4_Idempotent ==
    npc = "twice" => reslug = slug

----------------------------------------------------------------------------
(* Properties of generate_full_domains *)

IndexIn(seq, x) == CHOOSE i \in 1..Len(seq) : seq[i] = x

\* position of a candidate in the variant-major, tld-minor enumeration
Rank(d) ==
    (IndexIn(variants, d.variant) - 1) * Len(config.tlds)
        + IndexIn(config.tlds, d.tld)

ValidPairs ==
    {<<v, t>> \in (1..Len(variants)) \X (1..Len(config.tlds)) :
        validate_domain(variants[v] \o config.tlds[t])}

\* C6: candidates are emitted in variant-major, tld-minor order: variants in
\* the order of the variant list, and within a variant the tlds in the order
\* of the configured list, so the candidates of one variant are contiguous.
C6_VariantMajorOrder ==
    /\ \A i \in 1..Len(domains) :
          /\ domains[i].variant \in Range(variants)
          /\ domains[i].tld \in Range(config.tlds)
    /\ \A i \in 1..(Len(domains) - 1) :
          Rank(domains[i]) < Rank(domains[i + 1])

\* C6 witness: two variants with both tlds each have been emitted
C6_Witness ==
    /\ pc = "done" /\ Len(variants) >= 2 /\ Len(domains) >= 4
    /\ domains[1].variant = domains[2].variant
    /\ domains[3].variant # domains[1].variant

\* C7: with the availability check on, a probe whose lookup raises or times
\* out does not stop generate_full_domains: the candidate is emitted with
\* status 'error', the loops go on (the function returns or stands at a
\* further pair, where one of SkipInvalid, EmitUnchecked and EmitChecked can
\* run), and at the return every pair with a valid domain has its candidate.
C7_ProbeFailureIsLocal ==
    /\ \A i \in 1..Len(probes) :
          probes[i].lookup = "exception"
              => /\ i <= Len(domains)
                 /\ domains[i].domain = probes[i].domain
                 /\ domains[i].status = "error"
    /\ (pc = "loop" /\ probes # <<>>
            /\ probes[Len(probes)].lookup = "exception")
          => \/ ENABLED Return
             \/ InLoop /\ ti \in 1..Len(config.tlds)
    /\ pc = "done" =>
          \A p \in ValidPairs :
              \E i \in 1..Len(domains) :
                  /\ domains[i].variant = variants[p[1]]
                  /\ domains[i].tld = config.tlds[p[2]]

\* C7 witness: a probe failed, its candidate has status 'error', and a later
\* pair was still processed before the return
C7_Witness ==
    /\ pc = "done"
    /\ \E i \in 1..Len(probes) :
          /\ probes[i].lookup = "exception"
          /\ domains[i].status = "error"
          /\ i < Len(domains)

StatusesSetByProbe ==
    IF config.check_availability
    THEN /\ Len(probes) = Len(domains)
         /\ \A i \in 1..Len(domains) :
               /\ probes[i].domain = domains[i].domain
               /\ domains[i].status \in {"available", "taken", "error"}
               /\ domains[i].status =
                      check_domain_availability(probes[i].domain,
                                                probes[i].lookup).value
    ELSE /\ probes = <<>>
         /\ \A i \in 1..Len(domains) : domains[i].status = "unknown"

EmittedKept ==
    /\ Len(domains) <= Len(domains')
    /\ \A i \in 1..Len(domains) : domains'[i] = domains[i]
    /\ Len(probes) <= Len(probes')
    /\ \A i \in 1..Len(probes) : probes'[i] = probes[i]

\* C8: with the availability check off the probe is never called and every
\* candidate has status 'unknown'; with it on every emitted candidate was
\* probed exactly once and has that probe's result as status; a candidate,
\* once emitted, is never changed.
C8_StatusSetOnce ==
    [](pc # "idle" => StatusesSetByProbe) /\ [][EmittedKept]_vars

\* C8 witness: the check is on, and probed candidates carry different results
C8_Witness ==
    /\ pc = "done" /\ config.check_availability
    /\ Len(probes) >= 2
    /\ \E i, j \in 1..Len(domains) :
          domains[i].status = "taken" /\ domains[j].status = "available"

\* C9: every candidate of the returned list has a domain that passes
\* validate_domain; a pair whose domain fails validation produced no
\* candidate and no probe, and every other pair produced exactly one.
C9_OnlyValidDomains ==
    pc = "done" =>
        /\ \A i \in 1..Len(domains) :
              /\ domains[i].domain = domains[i].variant \o domains[i].tld
              /\ validate_domain(domains[i].domain)
        /\ \A i \in 1..Len(probes) : validate_domain(probes[i].domain)
        /\ Len(domains) = Cardinality(ValidPairs)
        /\ config.check_availability => Len(probes) = Cardinality(ValidPairs)

\* C9 witness: with the check on, a pair was dropped by the validation and
\* another pair was emitted and probed
C9_Witness ==
    /\ pc = "done" /\ config.check_availability
    /\ domains # <<>> /\ probes # <<>>
    /\ Cardinality(ValidPairs) < Len(variants) * Len(config.tlds)

\* C10: for an empty or whitespace-only company name, and any name whose
\* slug is empty, generate_full_domains returns an empty list and never
\* calls the probe.
C10_EmptyNameEmptyList ==
    (Called /\ base_name = <<>>)
        => /\ variants = <<>> /\ domains = <<>> /\ probes = <<>>
           /\ pc = "loop" => ENABLED Return

\* C10 witness: a non-empty name with an empty slug went through the call
\* with the availability check on and a cap that admits the numeric forms
C10_Witness ==
    /\ pc = "done" /\ company_name # <<>> /\ base_name = <<>>
    /\ config.check_availability /\ Cap >= 2
    /\ domains = <<>>

----------------------------------------------------------------------------
(* One call of KOnlineScraper._parse_company_from_element *)

InitParse ==
    /\ element \in Elements
    /\ source_url \in SourceUrlArgs
    /\ email_ok \in BOOLEAN /\ url_ok \in BOOLEAN
    /\ company_data = EmptyDict /\ ppc = "name" /\ result = NoneResult
    /\ NotParseIdle

\* lines 102-118: the name from a heading, or else from a <strong>
ExtractName ==
    /\ ppc = "name"
    /\ company_data' = NameExtracted(element)
    /\ ppc' = "check"
    /\ UNCHANGED <<element, source_url, email_ok, url_ok, result>>
    /\ UNCHANGED notParseVars

\* lines 120-121: if not company_data.get('company_name'): return None
ReturnNoName ==
    /\ ppc = "check"
    /\ NameMissing(company_data)
    /\ result' = NoneResult
    /\ ppc' = "returned"
    /\ UNCHANGED <<element, source_url, email_ok, url_ok, company_data>>
    /\ UNCHANGED notParseVars

\* lines 123-182: the optional fields and the source URL
ExtractFields ==
    /\ ppc = "check"
    /\ ~NameMissing(company_data)
    /\ company_data' = FieldsExtracted(company_data, element, source_url)
    /\ ppc' = "validate"
    /\ UNCHANGED <<element, source_url, email_ok, url_ok, result>>
    /\ UNCHANGED notParseVars

\* lines 184-189: return validate_company_data(company_data); an exception
\* is logged and None is returned
ValidateAndReturn ==
    /\ ppc = "validate"
    /\ result' = ValidatedOrNone(validate_company_data(company_data, email_ok, url_ok))
    /\ ppc' = "returned"
    /\ UNCHANGED <<element, source_url, email_ok, url_ok, company_data>>
    /\ UNCHANGED notParseVars

NextParse == ExtractName \/ ReturnNoName \/ ExtractFields \/ ValidateAndReturn

SpecParse == InitParse /\ [][NextParse]_vars

----------------------------------------------------------------------------
(* validate_company_data called on a dict of its caller *)

InitValidate ==
    /\ element = NoElement /\ source_url = <<>>
    /\ email_ok \in BOOLEAN /\ url_ok \in BOOLEAN
    /\ company_data \in ValidateInputs
    /\ ppc = "validate" /\ result = NoneResult
    /\ NotParseIdle

NextValidate == ValidateAndReturn

SpecValidate == InitValidate /\ [][NextValidate]_vars

----------------------------------------------------------------------------
(* Properties of _parse_company_from_element and validate_company_data *)

Returned == ppc = "returned"

Trim(s) == StripChars(s, Whitespace)

HasHeadingText(el) ==
    \E i \in 1..Len(el.headings) : Trim(el.headings[i].text) # <<>>

\* an emphasized text of at least 6 characters with no digit among its
\* first five
HasQualifyingStrong(el) ==
    \E i \in 1..Len(el.strongs) :
        /\ Len(Trim(el.strongs[i])) >= 6
        /\ \A j \in 1..5 : Trim(el.strongs[i])[j] \notin Digits

NoUsableName(el) == ~HasHeadingText(el) /\ ~HasQualifyingStrong(el)

\* C11: _parse_company_from_element never raises to its caller (it returns
\* None or a record), and for an element with no heading text and no
\* qualifying emphasized text it returns None.
C11_NoNameReturnsNone ==
    Returned =>
        /\ result.kind \in {"None", "record"}
        /\ NoUsableName(element) => result = NoneResult

\* C11 witness: an element with a blank heading and only short or digit-led
\* emphasized texts was parsed and None came back
C11_Witness ==
    /\ Returned /\ NoUsableName(element)
    /\ element.headings # <<>> /\ element.strongs # <<>>
    /\ element.email # <<>>
    /\ result = NoneResult

\* the fields of the input that are non-empty and not an invalid email or
\* an invalid website
FieldsToKeep ==
    {f \in DOMAIN company_data :
        /\ f # "company_name"
        /\ company_data[f] # <<>>
        /\ ~(f = "email" /\ ~email_ok)
        /\ ~(f = "website" /\ ~url_ok)}

\* C12: validate_company_data rejects a record exactly when its name is
\* empty after trimming; otherwise the returned record has the trimmed name
\* and every other non-empty field of the input, except an invalid email
\* and an invalid website.
C12_RejectsOnlyMissingName ==
    Returned =>
        /\ (result = NoneResult)
              <=> (Trim(DictGet(company_data, "company_name", <<>>)) = <<>>)
        /\ result.kind = "record" =>
              /\ result.value["company_name"] = Trim(company_data["company_name"])
              /\ \A f \in FieldsToKeep :
                    /\ f \in DOMAIN result.value
                    /\ result.value[f] = Trim(company_data[f])

\* C13: every record returned by _parse_company_from_element has a
\* source_url field, equal to the page URL passed in, or to the base URL of
\* the directory when no URL was passed.
C13_RecordCarriesSourceUrl ==
    (Returned /\ result.kind = "record") =>
        /\ "source_url" \in DOMAIN result.value
        /\ result.value["source_url"] =
              (IF source_url = <<>> \/ source_url = <<<<>>>>
               THEN K_ONLINE_BASE_URL ELSE source_url[1])

----------------------------------------------------------------------------
(* The listing locator of _scrape_page_with_requests and of             *)
(* _scrape_page_with_selenium on one parsed page                           *)

PageScrapers == {"requests", "selenium"}

InitLocate ==
    /\ via \in PageScrapers
    /\ page \in Pages
    /\ si = 1 /\ tried = <<>> /\ company_elements = <<>> /\ lpc = "select"
    /\ NotLocateIdle

InSelectorLoop == lpc = "select" /\ si \in 1..Len(company_selectors)

\* elements = soup.select(selector) is empty: next selector
SelectorMisses ==
    /\ InSelectorLoop
    /\ Select(page, company_selectors[si]) = <<>>
    /\ tried' = Append(tried, si)
    /\ si' = si + 1
    /\ UNCHANGED <<via, page, company_elements, lpc>>
    /\ UNCHANGED notLocateVars

\* elements = soup.select(selector) is not empty: company_elements =
\* elements; break
SelectorMatches ==
    /\ InSelectorLoop
    /\ Select(page, company_selectors[si]) # <<>>
    /\ tried' = Append(tried, si)
    /\ company_elements' = Select(page, company_selectors[si])
    /\ si' = AfterMatch(si).si
    /\ lpc' = AfterMatch(si).lpc
    /\ UNCHANGED <<via, page>>
    /\ UNCHANGED notLocateVars

\* _scrape_page_with_requests, the loop ran out of selectors: if not
\* company_elements, the fallback
SelectorsExhausted ==
    /\ via = "requests"
    /\ lpc = "select"
    /\ si > Len(company_selectors)
    /\ company_elements' =
           IF company_elements = <<>> THEN FallbackElements(page)
           ELSE company_elements
    /\ lpc' = "process"
    /\ UNCHANGED <<via, page, si, tried>>
    /\ UNCHANGED notLocateVars

\* _scrape_page_with_selenium, the loop ran out of selectors: the loop over
\* company_elements follows at once
SeleniumSelectorsExhausted ==
    /\ via = "selenium"
    /\ lpc = "select"
    /\ si > Len(company_selectors)
    /\ lpc' = "process"
    /\ UNCHANGED <<via, page, si, tried, company_elements>>
    /\ UNCHANGED notLocateVars

NextLocate ==
    \/ SelectorMisses \/ SelectorMatches
    \/ SelectorsExhausted \/ SeleniumSelectorsExhausted

SpecLocate == InitLocate /\ [][NextLocate]_vars

----------------------------------------------------------------------------
(* Properties of the listing locator *)

SomeSelectorMatches ==
    \E i \in 1..Len(company_selectors) : Select(page, company_selectors[i]) # <<>>

\* the first selector of the list with at least one match
FirstMatching ==
    CHOOSE i \in 1..Len(company_selectors) :
        /\ Select(page, company_selectors[i]) # <<>>
        /\ \A j \in 1..(i - 1) : Select(page, company_selectors[j]) = <<>>

HasClass(node, token) == token \in Range(node.class)

\* C14: when some selector matches, the elements processed are exactly the
\* matches of the first selector, in priority order, that has a match, and
\* only the selectors up to that one were tried; on a page with
\* '.company-item' and '.listing-item' elements and no '.exhibitor-item'
\* element, exactly the '.company-item' elements are processed.
C14_FirstMatchWins ==
    (lpc = "process" /\ SomeSelectorMatches) =>
        /\ company_elements = Select(page, company_selectors[FirstMatching])
        /\ tried = [i \in 1..FirstMatching |-> i]
        /\ (/\ \E n \in Range(page) : HasClass(n, company_selectors[2].arg)
            /\ \A n \in Range(page) : ~HasClass(n, company_selectors[1].arg))
           => \A i \in 1..Len(page) :
                 (i \in Range(company_elements))
                     <=> HasClass(page[i], company_selectors[2].arg)

\* C14 witness: a page with a '.company-item' and a '.listing-item' element,
\* of which only the first is processed, the third selector never tried
C14_Witness ==
    /\ lpc = "process"
    /\ \E i, j \in 1..Len(page) :
          /\ HasClass(page[i], company_selectors[2].arg)
          /\ HasClass(page[j], company_selectors[3].arg)
          /\ i \in Range(company_elements)
          /\ j \notin Range(company_elements)
    /\ tried = <<1, 2>>

----------------------------------------------------------------------------
(* One call of KOnlineScraper.scrape_companies (requests path) *)

\* the max_pages argument: None or an integer m >= 0
MaxPagesArgs == {<<>>} \cup {<<m>> : m \in 0..(MaxPages + 1)}

InitScrape ==
    /\ max_pages \in MaxPagesArgs
    /\ urls_to_scrape = <<>> /\ pi = 0 /\ all_companies = <<>>
    /\ outcomes = <<>> /\ events = <<>> /\ spc = "discover"
    /\ NotScrapeIdle

\* the lists _discover_pagination_urls returns: the base URL, page 1,
\* followed by the discovered pages, among which the base URL can come
\* again
DiscoveredUrls ==
    {[j \in 1..n |-> j] \o again : n \in 1..MaxPages, again \in {<<>>, <<1>>}}

\* lines 354-362: urls_to_scrape is what _discover_pagination_urls
\* returns, cut when max_pages is truthy
Discover ==
    /\ spc = "discover"
    /\ \E discovered \in DiscoveredUrls :
          urls_to_scrape' = LimitPages(discovered, max_pages)
    /\ events' = <<"discover">>
    /\ pi' = 1
    /\ spc' = "loop"
    /\ UNCHANGED <<max_pages, all_companies, outcomes>>
    /\ UNCHANGED notScrapeVars

InPageLoop == spc = "loop" /\ pi \in 1..Len(urls_to_scrape)

\* the page is fetched, after fewer than retry_attempts failed attempts, and
\* k records are parsed from it
PageScraped ==
    /\ InPageLoop
    /\ \E failures \in 0..(retry_attempts - 1), k \in 0..MaxRecordsPerPage :
          /\ all_companies' = all_companies \o PageRecords(urls_to_scrape[pi], k)
          /\ outcomes' = Append(outcomes,
                [url |-> urls_to_scrape[pi], kind |-> "scraped",
                 records |-> PageRecords(urls_to_scrape[pi], k)])
          /\ events' = events \o RequestEvents(failures)
                              \o RateLimit(pi, Len(urls_to_scrape))
    /\ pi' = pi + 1
    /\ UNCHANGED <<max_pages, urls_to_scrape, spc>>
    /\ UNCHANGED notScrapeVars

\* every attempt of _make_request fails: _scrape_page_with_requests
\* returns []
PageFetchFails ==
    /\ InPageLoop
    /\ all_companies' = all_companies \o <<>>
    /\ outcomes' = Append(outcomes,
          [url |-> urls_to_scrape[pi], kind |-> "fetch_failed", records |-> <<>>])
    /\ events' = events \o RequestEvents(retry_attempts)
                        \o RateLimit(pi, Len(urls_to_scrape))
    /\ pi' = pi + 1
    /\ UNCHANGED <<max_pages, urls_to_scrape, spc>>
    /\ UNCHANGED notScrapeVars

\* the scraping of the page raises after its request was sent: the except
\* clause of lines 381-383 logs and continues
PageRaises ==
    /\ InPageLoop
    /\ outcomes' = Append(outcomes,
          [url |-> urls_to_scrape[pi], kind |-> "raised", records |-> <<>>])
    /\ events' = events \o <<"fetch">>
    /\ pi' = AfterException(pi, Len(urls_to_scrape))
    /\ UNCHANGED <<max_pages, urls_to_scrape, all_companies, spc>>
    /\ UNCHANGED notScrapeVars

\* return all_companies
ReturnCompanies ==
    /\ spc = "loop"
    /\ pi > Len(urls_to_scrape)
    /\ spc' = "done"
    /\ UNCHANGED <<max_pages, urls_to_scrape, pi, all_companies, outcomes, events>>
    /\ UNCHANGED notScrapeVars

NextScrape ==
    Discover \/ PageScraped \/ PageFetchFails \/ PageRaises \/ ReturnCompanies

SpecScrape == InitScrape /\ [][NextScrape]_vars

----------------------------------------------------------------------------
(* Properties of scrape_companies *)

RECURSIVE Flatten(_)
Flatten(lists) ==
    IF lists = <<>> THEN <<>> ELSE lists[1] \o Flatten(Tail(lists))

\* C15: a page whose fetch fails or whose scraping raises contributes no
\* record and does not stop the run: when scrape_companies returns, every
\* page of the URL list has been scraped, in the order of the list, and the
\* result is the concatenation in page order of the records of the pages
\* that were scraped successfully.
C15_FailedPageIsSkipped ==
    /\ spc \in {"loop", "done"} =>
          all_companies =
              Flatten([j \in 1..Len(outcomes) |->
                          IF outcomes[j].kind = "scraped"
                          THEN outcomes[j].records ELSE <<>>])
    /\ spc = "done" =>
          /\ Len(outcomes) = Len(urls_to_scrape)
          /\ \A j \in 1..Len(outcomes) : outcomes[j].url = urls_to_scrape[j]

\* C15 witness: a run returned in which a page raised, a later page failed
\* to be fetched and a page after both gave records
C15_Witness ==
    /\ spc = "done"
    /\ \E a, b, c \in 1..Len(outcomes) :
          /\ a < b /\ b < c
          /\ outcomes[a].kind = "raised"
          /\ outcomes[b].kind = "fetch_failed"
          /\ outcomes[c].kind = "scraped" /\ outcomes[c].records # <<>>
    /\ all_companies # <<>>

\* C16: between every two consecutive requests of the page loop there is
\* a sleep of delay_between_requests, whatever the outcome of the earlier
\* one.
C16_DelayBetweenFetches ==
    \A j \in 1..(Len(events) - 1) :
        ~(events[j] = "fetch" /\ events[j + 1] = "fetch")

\* the pages scrape_companies has scraped so far
PagesScraped == Len(outcomes)

\* C20: with an integer max_pages = m >= 0, scrape_companies scrapes at
\* most m pages.
C20_AtMostMaxPages ==
    (max_pages # <<>> /\ max_pages[1] >= 0) => PagesScraped <= max_pages[1]

----------------------------------------------------------------------------
(* process_companies on a list of company records, each company going      *)
(* through generate_full_domains, and then get_domain_statistics on the    *)
(* list it returned                                                        *)

InitProcess ==
    /\ companies \in SeqsUpTo(CompanyRecords, MaxCompanies)
    /\ input = companies
    /\ ci = 1 /\ results = <<>> /\ stats = NoStatistics /\ qpc = "next"
    /\ config \in ProcessConfigs
    /\ company_name = <<>> /\ pc = "idle" /\ base_name = <<>>
    /\ variants = <<>> /\ vi = 0 /\ ti = 0 /\ domains = <<>> /\ probes = <<>>
    /\ NotBuildProcessIdle

InCompanyLoop == qpc = "next" /\ ci \in 1..Len(companies)

\* if not company_name: continue
SkipCompany ==
    /\ InCompanyLoop
    /\ DictGet(companies[ci], "company_name", <<>>) = <<>>
    /\ ci' = ci + 1
    /\ UNCHANGED <<companies, input, results, stats, qpc>>
    /\ UNCHANGED notProcessVars

\* domains = self.generate_full_domains(company_name): the call
GenerateForCompany ==
    /\ InCompanyLoop
    /\ DictGet(companies[ci], "company_name", <<>>) # <<>>
    /\ company_name' = companies[ci]["company_name"]
    /\ pc' = "call"
    /\ base_name' = <<>> /\ variants' = <<>> /\ vi' = 0 /\ ti' = 0
    /\ domains' = <<>> /\ probes' = <<>>
    /\ qpc' = "generate"
    /\ UNCHANGED <<config, companies, input, ci, results, stats>>
    /\ UNCHANGED notBuildProcessVars

\* lines 122-139: generate_full_domains has returned; the enriched copy is
\* appended to results
EnrichCompany ==
    /\ qpc = "generate"
    /\ pc = "done"
    /\ results' = Append(results, Enriched(companies[ci], domains))
    /\ companies' = [companies EXCEPT
                        ![ci] = CompanyAfterEnrich(companies[ci],
                                                   Enriched(companies[ci], domains))]
    /\ ci' = ci + 1
    /\ qpc' = "next"
    /\ pc' = "idle"
    /\ UNCHANGED <<input, stats>>
    /\ UNCHANGED <<company_name, config, base_name, variants, vi, ti, domains, probes>>
    /\ UNCHANGED notBuildProcessVars

\* return results, and get_domain_statistics(results)
Statistics ==
    /\ qpc = "next"
    /\ ci > Len(companies)
    /\ stats' = get_domain_statistics(results)
    /\ qpc' = "done"
    /\ UNCHANGED <<companies, input, ci, results>>
    /\ UNCHANGED notProcessVars

NextProcess ==
    \/ SkipCompany \/ GenerateForCompany
    \/ CallVariants \/ SkipInvalid \/ EmitUnchecked \/ EmitChecked \/ Return
    \/ EnrichCompany \/ Statistics

SpecProcess == InitProcess /\ [][NextProcess]_vars

----------------------------------------------------------------------------
(* Properties of process_companies and get_domain_statistics *)

RECURSIVE SumOver(_, _)
SumOver(counts, keys) ==
    IF keys = {} THEN 0
    ELSE LET k == CHOOSE x \in keys : TRUE
         IN  counts[k] + SumOver(counts, keys \ {k})

\* the sum of the counts of a distribution
Total(counts) == SumOver(counts, DOMAIN counts)

\* the sum of the lengths of the generated_domains lists of the records
GeneratedTotal ==
    SumSeq([j \in 1..Len(results) |-> Len(results[j]["generated_domains"])])

\* C17: for the list returned by process_companies, get_domain_statistics
\* reports total_domains equal to the sum of the lengths of the records'
\* generated_domains lists, and the counts of status_distribution and of
\* tld_distribution each sum to that total.
C17_TotalsAgree ==
    qpc = "done" =>
        /\ stats.total_domains = GeneratedTotal
        /\ Total(stats.status_distribution) = GeneratedTotal
        /\ Total(stats.tld_distribution) = GeneratedTotal
        /\ stats.total_companies = Len(results)

\* C17 witness: two records with domains, of at least two statuses, and a
\* total that is the sum of two non-zero counts
C17_Witness ==
    /\ qpc = "done" /\ Len(results) >= 2
    /\ \A j \in 1..Len(results) : results[j]["generated_domains"] # <<>>
    /\ Cardinality(DOMAIN stats.status_distribution) >= 2
    /\ stats.total_domains >= 3

\* the companies process_companies has not skipped so far, in order
Processed ==
    DocumentOrder({j \in 1..Len(input) :
        /\ j < ci
        /\ DictGet(input[j], "company_name", <<>>) # <<>>})

EnrichmentFields ==
    {"generated_domains", "domain_count", "domain_list", "domain_status_summary"}

\* C18: process_companies leaves every input record as it was, and each
\* enriched copy has every field of its record unchanged and, besides, only
\* the four enrichment fields.
C18_InputUnchanged ==
    qpc \in {"next", "generate", "done"} =>
        /\ companies = input
        /\ Len(results) = Len(Processed)
        /\ \A j \in 1..Len(results) :
              /\ DOMAIN results[j] = DOMAIN input[Processed[j]] \cup EnrichmentFields
              /\ \A f \in DOMAIN input[Processed[j]] :
                    results[j][f] = input[Processed[j]][f]

\* C18 witness: a record with a second field was enriched with a non-empty
\* list of domains, after a record that was skipped
C18_Witness ==
    /\ qpc = "done" /\ Len(input) >= 2
    /\ Len(results) = 1 /\ Processed = <<2>>
    /\ "city" \in DOMAIN input[2]
    /\ results[1]["domain_count"] >= 1

----------------------------------------------------------------------------
(* normalize_phone_number called on a phone text *)

InitPhone ==
    /\ phone \in PhoneInputs
    /\ normalized = <<>> /\ hpc = "new"
    /\ NotPhoneIdle

Normalize ==
    /\ hpc = "new"
    /\ normalized' = normalize_phone_number(phone)
    /\ hpc' = "done"
    /\ UNCHANGED phone
    /\ UNCHANGED notPhoneVars

NextPhone == Normalize

SpecPhone == InitPhone /\ [][NextPhone]_vars

----------------------------------------------------------------------------
(* Properties of normalize_phone_number *)

\* the digits of a text and its '+' where it is the leading one, i.e. the
\* first character that is a digit or '+'
RECURSIVE DigitsAndLeadingPlus(_, _)
DigitsAndLeadingPlus(s, leading) ==
    IF s = <<>> THEN <<>>
    ELSE IF s[1] \in Digits THEN <<s[1]>> \o DigitsAndLeadingPlus(Tail(s), FALSE)
    ELSE IF s[1] = "+" /\ leading
         THEN <<s[1]>> \o DigitsAndLeadingPlus(Tail(s), FALSE)
    ELSE IF s[1] = "+" THEN DigitsAndLeadingPlus(Tail(s), FALSE)
    ELSE DigitsAndLeadingPlus(Tail(s), leading)

PlusThenDigits(s) ==
    /\ s # <<>> /\ s[1] = "+"
    /\ \A i \in 2..Len(s) : s[i] \in Digits

\* C19: normalize_phone_number keeps the digits and a leading '+' only; a
\* result starting with '+' is kept, a leading 0 is replaced by '+49', any
\* other non-empty result gets '+49' in front; so the output is empty or a
\* '+' followed by digits only, and "030 1234567" and "+49 30 1234567" both
\* give "+49301234567".
C19_PlusThenDigits ==
    hpc = "done" =>
        /\ LET kept == DigitsAndLeadingPlus(phone, TRUE)
           IN  normalized =
                   (IF kept = <<>> \/ kept[1] = "+" THEN kept
                    ELSE IF kept[1] = "0" THEN <<"+", "4", "9">> \o Tail(kept)
                    ELSE <<"+", "4", "9">> \o kept)
        /\ normalized = <<>> \/ PlusThenDigits(normalized)
        /\ phone \in {<<"0","3","0"," ","1","2","3","4","5","6","7">>,
                      <<"+","4","9"," ","3","0"," ","1","2","3","4","5","6","7">>}
              => normalized = <<"+","4","9","3","0","1","2","3","4","5","6","7">>

----------------------------------------------------------------------------
(* check_domain_availability called by two builders running concurrently: *)
(* socket.setdefaulttimeout writes a setting of the whole process, and   *)
(* socket.gethostbyname runs under the setting in force when it is called *)

InitProbe ==
    /\ dns_timeout \in [Builders -> DnsTimeouts]
    /\ default_timeout = <<>>
    /\ todo \in [Builders -> SeqsUpTo(ProbeDomains, MaxProbes)]
    /\ tpc = [b \in Builders |-> "call"]
    /\ used = [b \in Builders |-> <<>>]
    /\ statuses = [b \in Builders |-> <<>>]
    /\ NotProbeIdle

\* if not validate_domain(domain): return 'error'
ProbeRejected(b) ==
    /\ tpc[b] = "call" /\ todo[b] # <<>>
    /\ ~validate_domain(Head(todo[b]))
    /\ statuses' = [statuses EXCEPT ![b] = Append(@,
           StatusAfterProbe(check_domain_availability(Head(todo[b]), "resolved")))]
    /\ todo' = [todo EXCEPT ![b] = Tail(@)]
    /\ UNCHANGED <<dns_timeout, default_timeout, tpc, used>>
    /\ UNCHANGED notProbeVars

\* socket.setdefaulttimeout(timeout)
SetDefaultTimeout(b) ==
    /\ tpc[b] = "call" /\ todo[b] # <<>>
    /\ validate_domain(Head(todo[b]))
    /\ default_timeout' = <<dns_timeout[b]>>
    /\ tpc' = [tpc EXCEPT ![b] = "lookup"]
    /\ UNCHANGED <<dns_timeout, todo, used, statuses>>
    /\ UNCHANGED notProbeVars

\* socket.gethostbyname(domain) and the status returned for its outcome
Lookup(b) ==
    /\ tpc[b] = "lookup"
    /\ used' = [used EXCEPT ![b] = Append(@, default_timeout)]
    /\ \E lookup \in LookupOutcomes :
          statuses' = [statuses EXCEPT ![b] = Append(@,
              StatusAfterProbe(check_domain_availability(Head(todo[b]), lookup)))]
    /\ todo' = [todo EXCEPT ![b] = Tail(@)]
    /\ tpc' = [tpc EXCEPT ![b] = "call"]
    /\ UNCHANGED <<dns_timeout, default_timeout>>
    /\ UNCHANGED notProbeVars

NextProbe ==
    \E b \in Builders : ProbeRejected(b) \/ SetDefaultTimeout(b) \/ Lookup(b)

SpecProbe == InitProbe /\ [][NextProbe]_vars

----------------------------------------------------------------------------
(* Properties of concurrent probing *)

\* C21: when two builders probe concurrently, every lookup of a builder
\* runs with the timeout of that builder's own config.
C21_OwnTimeout ==
    tpc # <<>> =>
        \A b \in Builders : \A i \in 1..Len(used[b]) :
            used[b][i] = <<dns_timeout[b]>>

----------------------------------------------------------------------------
(* Properties of the suffix stripping of clean_company_name *)

\* the whitespace-delimited words of a name that are a listed legal-entity
\* suffix, in any letter case
SuffixWords(n) ==
    {w \in Range(Split(n, " ")) :
        \E j \in 1..Len(legal_suffixes) : LowerStr(w) = LowerStr(legal_suffixes[j])}

\* what a word would leave in the slug if it were not removed
SlugWord(w) == LowerStr(SelectSeq(w, IsWord))

\* C22: for every name in which a listed legal-entity suffix occurs as a
\* whole whitespace-delimited word, in any letter case, dotted forms
\* included, no word of the slug comes from that suffix; the slug of
\* "Tech Solutions Ltd." is "tech-solutions".
C22_SuffixWordsRemoved ==
    Cleaned =>
        /\ \A w \in SuffixWords(name) : SlugWord(w) \notin Range(Split(slug, "-"))
        /\ name = <<"T","e","c","h"," ","S","o","l","u","t","i","o","n","s"," ","L","t","d",".">>
              => slug = <<"t","e","c","h","-","s","o","l","u","t","i","o","n","s">>

----------------------------------------------------------------------------
(* Properties of the numeric forms of generate_domain_variants *)

IsNumericForm(v) ==
    \E i \in 1..Len(NumberSuffixes) : v = base_name \o NumberSuffixes[i]

\* C23: a numeric-suffixed form (slug+'24', slug+'365', slug+'2024') is
\* added only if the variant set holds fewer than max_variants_per_company
\* entries at the moment it is added. Generated lists the set in insertion
\* order, so the entry at position j was added to a set of j - 1 entries.
C23_NumericFormsWithinCap ==
    (Called /\ base_name # <<>>) =>
        \A j \in 1..Len(Generated) :
            IsNumericForm(Generated[j]) => j - 1 < Cap

----------------------------------------------------------------------------
(* The two page scrapers compared *)

\* the listing elements _scrape_page_with_requests processes on a page
RequestsElements ==
    IF SomeSelectorMatches
    THEN Select(page, company_selectors[FirstMatching])
    ELSE FallbackElements(page)

\* C24: for the same parsed document the Selenium page scraper processes
\* the same listing elements as the requests page scraper, the elements of
\* the content-heuristic fallback included when no structural selector
\* matches.
C24_SameElementsAsRequests ==
    (lpc = "process" /\ via = "selenium") =>
        company_elements = RequestsElements

----------------------------------------------------------------------------
(* Properties of the address of a record *)

\* the first line of a text that is not blank, without the whitespace
\* around it
FirstNonEmptyLine(text) ==
    LET split == Split(text, "\n")
        first == CHOOSE i \in 1..Len(split) :
                    /\ Trim(split[i]) # <<>>
                    /\ \A j \in 1..(i - 1) : Trim(split[j]) = <<>>
    IN  Trim(split[first])

\* C25: for a listing element with a non-empty address block, the address
\* field of the record returned by _parse_company_from_element equals the
\* first non-empty line of the concatenated address text.
C25_AddressIsFirstLine ==
    (Returned /\ result.kind = "record" /\ AddressText(element.addresses) # <<>>)
        => /\ "address" \in DOMAIN result.value
           /\ result.value["address"] =
                  FirstNonEmptyLine(AddressText(element.addresses))

----------------------------------------------------------------------------
(* One call of KOnlineScraper._make_request *)

\* largest retries argument enumerated
MaxRetries == 4

\* the retries argument: None, or a number of attempts
RetriesArgs == {<<>>} \cup {<<n>> : n \in 0..MaxRetries}

\* self.config['retry_attempts']: up to the shipped value
ConfiguredRetries == 0..retry_attempts

\* the argument is ignored: always the configured number of attempts
RetriesFromConfig(arg, conf) == conf

\* retries or self.config.get('retry_attempts', 3)
RetriesOr(arg, conf) == IF Truthy(arg) THEN arg[1] ELSE conf

InitRequest ==
    /\ retries \in RetriesArgs
    /\ configured \in ConfiguredRetries
    /\ attempts = 0 /\ attempt = 0 /\ gets = <<>> /\ naps = 0
    /\ mpc = "call" /\ response = <<>>
    /\ NotRequestIdle

\* retries = retries or self.config.get('retry_attempts', 3)
ResolveRetries ==
    /\ mpc = "call"
    /\ attempts' = RetriesOr(retries, configured)
    /\ mpc' = "loop"
    /\ UNCHANGED <<retries, configured, attempt, gets, naps, response>>
    /\ UNCHANGED notRequestVars

InAttempt == mpc = "loop" /\ attempt < attempts

\* session.get and raise_for_status pass: return response
AttemptSucceeds ==
    /\ InAttempt
    /\ gets' = Append(gets, "ok")
    /\ response' = <<[attempt |-> attempt]>>
    /\ mpc' = "returned"
    /\ UNCHANGED <<retries, configured, attempts, attempt, naps>>
    /\ UNCHANGED notRequestVars

\* requests.RequestException before the last attempt: sleep, next attempt
AttemptFailsRetry ==
    /\ InAttempt
    /\ attempt < attempts - 1
    /\ gets' = Append(gets, "request_error")
    /\ naps' = naps + 1
    /\ attempt' = attempt + 1
    /\ UNCHANGED <<retries, configured, attempts, mpc, response>>
    /\ UNCHANGED notRequestVars

\* requests.RequestException on the last attempt: return None
LastAttemptFails ==
    /\ InAttempt
    /\ ~(attempt < attempts - 1)
    /\ gets' = Append(gets, "request_error")
    /\ response' = <<>>
    /\ mpc' = "returned"
    /\ UNCHANGED <<retries, configured, attempts, attempt, naps>>
    /\ UNCHANGED notRequestVars

\* session.get raises something that is not a RequestException: the
\* exception leaves _make_request
AttemptRaisesOther ==
    /\ InAttempt
    /\ gets' = Append(gets, "other_error")
    /\ mpc' = "raised"
    /\ UNCHANGED <<retries, configured, attempts, attempt, naps, response>>
    /\ UNCHANGED notRequestVars

\* range(retries) is empty: the return None after the loop
NoAttempt ==
    /\ mpc = "loop"
    /\ ~(attempt < attempts)
    /\ response' = <<>>
    /\ mpc' = "returned"
    /\ UNCHANGED <<retries, configured, attempts, attempt, gets, naps>>
    /\ UNCHANGED notRequestVars

NextRequest ==
    \/ ResolveRetries \/ AttemptSucceeds \/ AttemptFailsRetry
    \/ LastAttemptFails \/ AttemptRaisesOther \/ NoAttempt

SpecRequest == InitRequest /\ [][NextRequest]_vars

----------------------------------------------------------------------------
(* Properties of _make_request *)

\* r: the retries argument, or else the configured retry_attempts
AllowedAttempts == IF retries # <<>> /\ retries[1] # 0 THEN retries[1] ELSE configured

RequestEnded == mpc \in {"returned", "raised"}

AllFailed ==
    /\ Len(gets) = AllowedAttempts
    /\ \A i \in 1..Len(gets) : gets[i] = "request_error"

\* C26: _make_request makes at most r GET attempts, where r is the retries
\* argument or else the configured retry_attempts; it ends at the first
\* successful response and returns it without a further attempt; and when
\* all r attempts fail with a request error it returns None without
\* raising.
C26_BoundedRetries ==
    /\ Len(gets) <= AllowedAttempts
    /\ \A i \in 1..Len(gets) :
          gets[i] = "ok" => /\ i = Len(gets)
                            /\ mpc = "returned" /\ response # <<>>
    /\ (RequestEnded /\ AllFailed) => (mpc = "returned" /\ response = <<>>)
    /\ mpc = "loop" => Len(gets) = attempt
    /\ (RequestEnded /\ response # <<>>) => gets[Len(gets)] = "ok"

\* C26 witness: two attempts failed with a request error, the third one
\* succeeded and its response was returned
C26_Witness ==
    /\ mpc = "returned" /\ response # <<>>
    /\ gets = <<"request_error", "request_error", "ok">>

----------------------------------------------------------------------------
(* KOnlineScraper: the driver, the session and close() *)

\* most calls of close() on one scraper
MaxCloseCalls == 4

\* what driver.quit() can do: return, or raise an Exception
QuitOutcomes == {"ok", "raises"}

\* there is no except clause around driver.quit(): its exception leaves
\* close()
AfterQuitUncaught(outcome) == IF outcome = "raises" THEN "raised" ELSE "clear"

\* try: self.driver.quit() except Exception: warning; in both cases the
\* next statement is self.driver = None
AfterQuit(outcome) == "clear"

\* __init__: self.session = requests.Session(); self.driver = None
InitClose ==
    /\ driver = <<>> /\ quits = <<>> /\ session_closes = 0 /\ closes = 0
    /\ kpc = "ready"
    /\ NotCloseIdle

BetweenCalls == kpc \in {"ready", "closed"}

\* _scrape_page_with_selenium: if not self.driver: self.driver =
\* self._setup_selenium_driver()
SetupDriver ==
    /\ BetweenCalls
    /\ closes < MaxCloseCalls
    /\ driver = <<>>
    /\ driver' = <<"driver">>
    /\ kpc' = "ready"
    /\ UNCHANGED <<quits, session_closes, closes>>
    /\ UNCHANGED notCloseVars

\* close() is called: if self.driver
CloseCalled ==
    /\ BetweenCalls
    /\ closes < MaxCloseCalls
    /\ kpc' = IF driver # <<>> THEN "quit" ELSE "session"
    /\ UNCHANGED <<driver, quits, session_closes, closes>>
    /\ UNCHANGED notCloseVars

\* self.driver.quit() inside try/except Exception
QuitDriver ==
    /\ kpc = "quit"
    /\ \E outcome \in QuitOutcomes :
         /\ quits' = Append(quits, outcome)
         /\ kpc' = AfterQuit(outcome)
    /\ UNCHANGED <<driver, session_closes, closes>>
    /\ UNCHANGED notCloseVars

\* self.driver = None
ClearDriver ==
    /\ kpc = "clear"
    /\ driver' = <<>>
    /\ kpc' = "session"
    /\ UNCHANGED <<quits, session_closes, closes>>
    /\ UNCHANGED notCloseVars

\* if self.session: self.session.close(); close() returns
CloseSession ==
    /\ kpc = "session"
    /\ session_closes' = session_closes + 1
    /\ closes' = closes + 1
    /\ kpc' = "closed"
    /\ UNCHANGED <<driver, quits>>
    /\ UNCHANGED notCloseVars

NextClose ==
    \/ SetupDriver \/ CloseCalled \/ QuitDriver \/ ClearDriver \/ CloseSession

SpecClose == InitClose /\ [][NextClose]_vars

----------------------------------------------------------------------------
(* Properties of close() *)

\* C27: after close() returns, in any prior state and after any number of
\* calls, driver is None and the session has been closed by that call; an
\* exception raised by driver.quit() is absorbed, and close() never raises,
\* with or without a driver.
C27_CloseReleasesBoth ==
    /\ kpc # "raised"
    /\ kpc = "closed" =>
          /\ driver = <<>>
          /\ closes >= 1 /\ session_closes = closes

\* C27 witness: a second close() has returned on a scraper whose
\* driver.quit() raised
C27_Witness ==
    /\ kpc = "closed" /\ closes >= 2
    /\ "raises" \in Range(quits)
    /\ driver = <<>> /\ session_closes = closes

----------------------------------------------------------------------------
(* main.py: the scrape command, from the try statement to its finally *)

\* most companies scrape_companies returns
MaxFound == 3

\* what a statement of the try block can raise: KeyboardInterrupt, an
\* Exception, or a BaseException no except clause names
Raisable == {"KeyboardInterrupt", "Exception", "SystemExit"}

\* except KeyboardInterrupt / except Exception as e / neither
HandledAs(e) ==
    IF e = "KeyboardInterrupt" THEN "interrupted"
    ELSE IF e = "Exception" THEN "error"
    ELSE "uncaught"

\* a return inside the try block leaves the function at once
AfterLeavingTryNoFinally == "exited"

\* a return, an except clause or an exception in flight: the finally
\* clause runs before the function is left
AfterLeavingTry == "finally"

InitCli ==
    /\ generate_domains \in BOOLEAN
    /\ scraper = <<>> /\ scraped_count = 0 /\ processed_count = 0 /\ path = ""
    /\ scraper_closes = 0 /\ cpc = "create"
    /\ NotCliIdle

\* a statement of the try block raises e
Raises(e) ==
    /\ path' = HandledAs(e)
    /\ cpc' = AfterLeavingTry

\* scraper = create_scraper()
CreateScraper ==
    /\ cpc = "create"
    /\ \/ /\ scraper' = <<"scraper">>
          /\ cpc' = "test"
          /\ UNCHANGED path
       \/ /\ \E e \in Raisable : Raises(e)
          /\ UNCHANGED scraper
    /\ UNCHANGED <<generate_domains, scraped_count, processed_count, scraper_closes>>
    /\ UNCHANGED notCliVars

\* test_result = scraper.test_scraping(); if not test_result['success']:
\* return
TestScraping ==
    /\ cpc = "test"
    /\ \/ cpc' = "scrape" /\ UNCHANGED path
       \/ path' = "test_failed" /\ cpc' = AfterLeavingTry
       \/ \E e \in Raisable : Raises(e)
    /\ UNCHANGED <<generate_domains, scraper, scraped_count, processed_count, scraper_closes>>
    /\ UNCHANGED notCliVars

\* companies = scraper.scrape_companies(...); if not companies: return
ScrapeCompanies ==
    /\ cpc = "scrape"
    /\ \/ /\ scraped_count' = 0
          /\ path' = "no_companies" /\ cpc' = AfterLeavingTry
       \/ /\ scraped_count' \in 1..MaxFound
          /\ cpc' = IF generate_domains THEN "domains" ELSE "export"
          /\ UNCHANGED path
       \/ /\ \E e \in Raisable : Raises(e)
          /\ UNCHANGED scraped_count
    /\ UNCHANGED <<generate_domains, scraper, processed_count, scraper_closes>>
    /\ UNCHANGED notCliVars

\* for company in companies: domain_generator.process_companies([company])
ProcessOne ==
    /\ cpc = "domains"
    /\ processed_count < scraped_count
    /\ \/ processed_count' = processed_count + 1 /\ UNCHANGED <<path, cpc>>
       \/ (\E e \in Raisable : Raises(e)) /\ UNCHANGED processed_count
    /\ UNCHANGED <<generate_domains, scraper, scraped_count, scraper_closes>>
    /\ UNCHANGED notCliVars

\* get_domain_statistics and print_statistics after the loop
PrintStatistics ==
    /\ cpc = "domains"
    /\ processed_count = scraped_count
    /\ \/ cpc' = "export" /\ UNCHANGED path
       \/ \E e \in Raisable : Raises(e)
    /\ UNCHANGED <<generate_domains, scraper, scraped_count, processed_count, scraper_closes>>
    /\ UNCHANGED notCliVars

\* exporter.export(companies, output_format, output_file): the end of the
\* try block
Export ==
    /\ cpc = "export"
    /\ \/ path' = "completed" /\ cpc' = AfterLeavingTry
       \/ \E e \in Raisable : Raises(e)
    /\ UNCHANGED <<generate_domains, scraper, scraped_count, processed_count, scraper_closes>>
    /\ UNCHANGED notCliVars

\* finally: if 'scraper' in locals(): scraper.close()
Finally ==
    /\ cpc = "finally"
    /\ scraper_closes' = IF scraper # <<>> THEN scraper_closes + 1
                         ELSE scraper_closes
    /\ cpc' = "exited"
    /\ UNCHANGED <<generate_domains, scraper, scraped_count, processed_count, path>>
    /\ UNCHANGED notCliVars

NextCli ==
    \/ CreateScraper \/ TestScraping \/ ScrapeCompanies \/ ProcessOne
    \/ PrintStatistics \/ Export \/ Finally

SpecCli == InitCli /\ [][NextCli]_vars

\* the command runs in one thread and every call it makes returns or
\* raises, so the next statement is always taken
SpecCliFair == SpecCli /\ WF_vars(NextCli)

----------------------------------------------------------------------------
(* Properties of the scrape command *)

\* C28: once create_scraper() has returned, scraper.close() is eventually
\* called, on every exit path: normal completion, the early returns after
\* a failed connectivity test or zero companies scraped_count, KeyboardInterrupt,
\* and any other exception.
C28_CloseEventuallyCalled == (scraper # <<>>) ~> (scraper_closes >= 1)

\* C28 witness: the command was interrupted while it processed the
\* companies and has closed its scraper
C28_Witness ==
    /\ cpc = "exited" /\ path = "interrupted"
    /\ scraper # <<>> /\ scraped_count >= 1 /\ scraper_closes = 1

----------------------------------------------------------------------------
(* One call of KOnlineScraper._discover_pagination_urls *)

\* most <a> elements on the directory page
MaxAnchors == 2

\* s.startswith(prefix)
StartsWith(s, prefix) ==
    Len(s) >= Len(prefix) /\ SubSeq(s, 1, Len(prefix)) = prefix

\* the URL up to and including the last '/' of its path
DirOf(url) ==
    LET last == CHOOSE p \in 1..Len(url) :
                    url[p] = "/" /\ \A q \in (p + 1)..Len(url) : url[q] # "/"
    IN  SubSeq(url, 1, last)

\* urllib.parse.urljoin(base, href) for a base without query and fragment
\* and an href that is absolute, a query, a fragment or a relative path
\* of one segment
urljoin(base, href) ==
    IF href = <<>> THEN base
    ELSE IF StartsWith(href, <<"h","t","t","p">>) THEN href
    ELSE IF href[1] = "?" THEN base \o href
    ELSE IF href[1] = "#" THEN (IF Len(href) = 1 THEN base ELSE base \o href)
    ELSE DirOf(base) \o href

\* href attributes: empty, '#', '?page=2', the absolute URL of page 2, and
\* the relative path of the directory page itself
Hrefs == {
    <<>>,
    <<"#">>,
    <<"?","p","a","g","e","=","2">>,
    K_ONLINE_BASE_URL \o <<"?","p","a","g","e","=","2">>,
    <<"a">>}

\* an <a>: its href, whether it stands inside a pagination block
\* ('.pagination', '.pager', '.page-numbers', '[class*="page"]'), and
\* whether its text matches next|weiter|more|mehr
Anchors == [href : Hrefs, pager : BOOLEAN, next : BOOLEAN]

\* the six pagination_selectors on one <a>
IsPageLink(a) ==
    \/ a.pager
    \/ Substring(a.href, <<"p","a","g","e">>)
    \/ Substring(a.href, <<"o","f","f","s","e","t">>)

\* the set page_links of lines 314-321
PageLinks(base, as) ==
    {urljoin(base, as[i].href) :
        i \in {j \in 1..Len(as) : IsPageLink(as[j]) /\ as[j].href # <<>>}}

\* if full_url not in urls: urls.append(full_url)
AppendNew(lst, x) == IF x \in Range(lst) THEN lst ELSE Append(lst, x)

\* urls.extend(list(page_links))
Extend(lst, more) == lst \o more

\* the loop over next_links of lines 328-334
RECURSIVE WithNextLinks(_, _, _)
WithNextLinks(lst, base, as) ==
    IF as = <<>> THEN lst
    ELSE WithNextLinks(
            IF as[1].next /\ as[1].href # <<>>
            THEN AppendNew(lst, urljoin(base, as[1].href)) ELSE lst,
            base, Tail(as))

InitDiscover ==
    /\ base_url = K_ONLINE_BASE_URL
    /\ anchors \in SeqsUpTo(Anchors, MaxAnchors)
    /\ urls = <<base_url>>
    /\ dpc = "request"
    /\ NotDiscoverIdle

\* response = self._make_request(base_url) is None: return urls
DirectoryFetchFails ==
    /\ dpc = "request"
    /\ dpc' = "returned"
    /\ UNCHANGED <<base_url, anchors, urls>>
    /\ UNCHANGED notDiscoverVars

\* the response arrives and is parsed
DirectoryFetched ==
    /\ dpc = "request"
    /\ dpc' = "links"
    /\ UNCHANGED <<base_url, anchors, urls>>
    /\ UNCHANGED notDiscoverVars

\* lines 314-325: page_links is collected and, in the order in which the
\* set iterates, added to urls
CollectPageLinks ==
    /\ dpc = "links"
    /\ \E lst \in ListOfSet(PageLinks(base_url, anchors)) :
          urls' = Extend(urls, lst)
    /\ dpc' = "next"
    /\ UNCHANGED <<base_url, anchors>>
    /\ UNCHANGED notDiscoverVars

\* lines 328-334: the 'next' links not yet in urls are appended
AppendNextLinks ==
    /\ dpc = "next"
    /\ urls' = WithNextLinks(urls, base_url, anchors)
    /\ dpc' = "returned"
    /\ UNCHANGED <<base_url, anchors>>
    /\ UNCHANGED notDiscoverVars

\* an exception inside the try block: it is logged, urls is returned as
\* it stands
DiscoverRaises ==
    /\ dpc \in {"request", "links", "next"}
    /\ dpc' = "returned"
    /\ UNCHANGED <<base_url, anchors, urls>>
    /\ UNCHANGED notDiscoverVars

NextDiscover ==
    \/ DirectoryFetchFails \/ DirectoryFetched \/ CollectPageLinks
    \/ AppendNextLinks \/ DiscoverRaises

SpecDiscover == InitDiscover /\ [][NextDiscover]_vars

----------------------------------------------------------------------------
(* Properties of _discover_pagination_urls *)

\* C29: the URL list built by _discover_pagination_urls starts with the
\* base URL and contains no URL twice.
C29_NoUrlTwice ==
    dpc = "returned" =>
        /\ urls[1] = base_url
        /\ \A i, j \in 1..Len(urls) : urls[i] = urls[j] => i = j

=============================================================================
